---- MODULE Spec2Model ----
(***************************************************************************)
(* Authorization and caching subsystem of the backend API:                 *)
(*   - RedisClient (lib/redis.ts) and CacheService (services/cache.service) *)
(*   - the authentication and authorization middleware                     *)
(*     (middleware/auth.middleware) and the routes that mount them         *)
(*   - the role, user and admin services over the persistent store         *)
(* Strings of the program that are inspected character by character (cache *)
(* keys, glob patterns) are sequences of one-character strings.            *)
(***************************************************************************)
EXTENDS Integers, Sequences, FiniteSets, TLC

VARIABLES
    store,        \* the Redis server's keyspace: key -> JSON text, or Nil
    isConnected,  \* RedisClient.isConnected
    call,         \* the getOrSet call in flight (its position and locals)
    last,         \* the cacheService call that returned last, with what it saw
    hist,         \* per key: what the last completed write/invalidation was
    cfgApiKey,    \* config.apiKey
    sessions,     \* rows of the session table (prisma.session)
    now,          \* the clock, in seconds
    req,          \* the request in the pipeline: headers, req.user, position
    res,          \* the response sent for it and the calls of next()
    route,        \* the route the request is on and the middleware that ran last
    roles,        \* the role table (prisma.role): id -> row, or NoRole
    users,        \* the user table (prisma.user): id -> row, or NoUserRow
    admins,       \* the admin table (prisma.admin): the ids present
    procs,        \* the service calls in flight, one per request task
    pages,        \* the keys `cache:<url>` of the keyspace: url -> JSON text, or Nil
    http,         \* the GET requests in flight behind cacheMiddleware, per task
    answer,       \* per url: the last 2xx answer sent and how it was cached
    server,       \* the process: startup, listening, shutdown, its connections
    jwt,          \* the clock in half seconds, a signed token and its verification
    sock          \* a socket.io connection: its handshake, handlers and emits

vars ==
    <<store, isConnected, call, last, hist, cfgApiKey, sessions, now, req, res,
      route, roles, users, admins, procs, pages, http, answer, server, jwt,
      sock>>
cacheVars == <<store, isConnected, call, last, hist>>
authVars == <<cfgApiKey, sessions, now, req, res>>
dbVars == <<roles, users, admins>>
webVars == <<pages, http, answer, server, jwt, sock>>

----------------------------------------------------------------------------
(* Bounds *)

NumIds == 1        \* entity ids with a key role:<id>
NumObjects == 1    \* distinct objects a producer can return

MaxTime == 2       \* the clock runs from 0 to MaxTime
MaxSessions == 1   \* rows in the session table

----------------------------------------------------------------------------
(* JavaScript values and JSON *)

Digits == <<"1", "2", "3", "4", "5", "6", "7", "8", "9">>

\* A JS value: an object (possibly holding a Date field, as prisma rows do),
\* a number, or one of null / undefined.
JsObj(i, d) == [t |-> "object", id |-> i, date |-> d]
JsNum(n) == [t |-> "number", id |-> n, date |-> "none"]
JsNull == [t |-> "null", id |-> 0, date |-> "none"]
JsUndefined == [t |-> "undefined", id |-> 0, date |-> "none"]

\* The JSON values a fetcher passed to getOrSet may resolve to: entity objects
\* as prisma returns them (with a Date field), and a number.
ProducerValues ==
    {JsObj(i, "Date") : i \in 1..NumObjects} \cup {JsNum(0)}

\* The values cacheService.set may be given.
SetValues == ProducerValues \cup {JsUndefined}

\* JS truthiness, as `if (cached)` and `data ? ... : ...` evaluate it.
Truthy(v) == v.t = "object" \/ (v.t = "number" /\ v.id # 0)

\* No string: what JSON.stringify(undefined) returns, and a missing Redis key.
Nil == [json |-> JsUndefined]

\* JSON.stringify: a Date field is written as its ISO string; undefined has no
\* JSON text.  A JSON text is identified by the value it parses to.
JSONstringify(v) ==
    IF v.t = "undefined" THEN Nil
    ELSE IF v.date = "Date" THEN [json |-> [v EXCEPT !.date = "iso"]]
    ELSE [json |-> v]

\* JSON.parse of a text JSON.stringify produced.
JSONparse(text) == text.json

----------------------------------------------------------------------------
(* Cache keys and glob patterns *)

RolePrefix == <<"r", "o", "l", "e", ":">>
RolesPrefix == <<"r", "o", "l", "e", "s", ":">>

RoleKey(i) == RolePrefix \o <<Digits[i]>>
RolesListKey == RolesPrefix \o <<"a">>

Keys == {RoleKey(i) : i \in 1..NumIds} \cup {RolesListKey}

Patterns == {RolesPrefix \o <<"*">>, RolePrefix \o <<"*">>, <<"*">>}

\* Redis glob matching of KEYS: `*` matches zero or more characters.
RECURSIVE GlobMatch(_, _)
GlobMatch(p, s) ==
    IF p = <<>> THEN s = <<>>
    ELSE IF Head(p) = "*"
         THEN GlobMatch(Tail(p), s) \/ (s # <<>> /\ GlobMatch(p, Tail(s)))
         ELSE s # <<>> /\ Head(p) = Head(s) /\ GlobMatch(Tail(p), Tail(s))

\* RedisClient.keys(pattern): the keys present that match.
RedisKeys(pattern) == {k \in Keys : store[k] # Nil /\ GlobMatch(pattern, k)}

----------------------------------------------------------------------------
(* RedisClient: the wrapped client's commands.  A command either succeeds,  *)
(* is rejected (the promise rejects, nothing applied) or is applied by the  *)
(* server while its reply is lost (the promise rejects all the same).       *)

FaultKinds == {"none", "rejected", "replyLost"}

Raised(fault) == fault # "none"
Applied(fault) == fault # "rejected"

\* RedisClient.isReady
IsReady == isConnected

\* The outcome of a call: the keyspace it leaves, what it returns, and
\* whether an exception left it.
Outcome(s, v, t) == [store |-> s, value |-> v, threw |-> t]

\* RedisClient.get: the string at the key, or null
RedisGet(k, fault) ==
    IF Raised(fault) THEN Outcome(store, Nil, TRUE)
    ELSE Outcome(store, store[k], FALSE)

\* RedisClient.set (setEx with the ttl).  The client throws on an argument
\* that is not a string, before anything is sent.
RedisSet(k, text, fault) ==
    IF text = Nil THEN Outcome(store, Nil, TRUE)
    ELSE Outcome(IF Applied(fault) THEN [store EXCEPT ![k] = text] ELSE store,
                 Nil, Raised(fault))

\* RedisClient.del
RedisDel(k, fault) ==
    Outcome(IF Applied(fault) THEN [store EXCEPT ![k] = Nil] ELSE store,
            Nil, Raised(fault))

\* RedisClient.flush
RedisFlush(fault) ==
    Outcome(IF Applied(fault) THEN [k \in Keys |-> Nil] ELSE store,
            Nil, Raised(fault))

----------------------------------------------------------------------------
(* CacheService *)

\* A catch block that rethrows instead of logging.
CatchRethrows(o, value) == o

\* catch (error) { console.error(...) }: the call returns `value` normally,
\* with whatever the commands before the error did.
Catch(o, value) == IF o.threw THEN Outcome(o.store, value, FALSE) ELSE o

\* get without the `if (!redis.isReady()) return null` guard.
CacheGetUnguarded(k, fault) ==
    IF Raised(fault) THEN Outcome(store, JsNull, FALSE)
    ELSE Outcome(store, IF store[k] # Nil THEN JSONparse(store[k]) ELSE JsNull, FALSE)

\* CacheService.get
CacheGet(k, fault) ==
    IF ~IsReady THEN Outcome(store, JsNull, FALSE)
    ELSE LET r == RedisGet(k, fault)
             body == IF r.threw THEN r
                     ELSE Outcome(r.store,
                                  IF r.value # Nil THEN JSONparse(r.value) ELSE JsNull,
                                  FALSE)
         IN Catch(body, JsNull)

\* CacheService.set
CacheSet(k, v, fault) ==
    IF ~IsReady THEN Outcome(store, JsUndefined, FALSE)
    ELSE LET r == RedisSet(k, JSONstringify(v), fault)
         IN Catch(Outcome(r.store, JsUndefined, r.threw), JsUndefined)

\* delete that returns without issuing DEL.
CacheDeleteSkipsDel(k, fault) == Outcome(store, JsUndefined, FALSE)

\* CacheService.delete
CacheDelete(k, fault) ==
    IF ~IsReady THEN Outcome(store, JsUndefined, FALSE)
    ELSE LET r == RedisDel(k, fault)
         IN Catch(Outcome(r.store, JsUndefined, r.threw), JsUndefined)

\* CacheService.deletePattern: keys(pattern), then del for each key.  With no
\* fault every matching key is deleted; a fault ends the loop in the catch,
\* with any part D of the matching keys deleted by then.
CacheDeletePattern(pattern, fault, D) ==
    IF ~IsReady THEN Outcome(store, JsUndefined, FALSE)
    ELSE LET gone == IF Raised(fault) THEN D ELSE RedisKeys(pattern)
             body == Outcome([k \in Keys |-> IF k \in gone THEN Nil ELSE store[k]],
                             JsUndefined, Raised(fault))
         IN Catch(body, JsUndefined)

\* CacheService.clear
CacheClear(fault) ==
    IF ~IsReady THEN Outcome(store, JsUndefined, FALSE)
    ELSE LET r == RedisFlush(fault)
         IN Catch(Outcome(r.store, JsUndefined, r.threw), JsUndefined)

\* CacheService.getOrSet: `if (cached) return cached;`
GetOrSetHit(cached) == Truthy(cached)

\* getOrSet that swallows the fetcher's rejection and caches null for the key.
GetOrSetRejectedCachesNull(k) ==
    Outcome(IF IsReady THEN [store EXCEPT ![k] = JSONstringify(JsNull)] ELSE store,
            JsNull, FALSE)

\* CacheService.getOrSet when `await fetcher()` rejects: the exception leaves
\* getOrSet, `this.set` is not reached.
GetOrSetRejected(k) == Outcome(store, JsUndefined, TRUE)

----------------------------------------------------------------------------
(* Requests, credentials and principals *)

\* Status codes of the response helpers.
Unauthorized == 401
Forbidden == 403

\* req.user when no principal is attached (undefined), and what verifyToken
\* returns for a token it rejects (null).
NoUser == [absent |-> TRUE]

\* The principals tokens are issued for (JwtPayload).
Claims ==
    {[id |-> "u1", email |-> "u1@x", role |-> "user", type |-> "user"],
     [id |-> "u2", email |-> "u2@x", role |-> "SUPER_ADMIN", type |-> "user"],
     [id |-> "a1", email |-> "a1@x", role |-> "SUPER_ADMIN", type |-> "admin"],
     [id |-> "a2", email |-> "a2@x", role |-> "ADMIN", type |-> "admin"]}

\* config.jwt.secret, and some other key a token may be signed with.
JwtSecret == "secret"
SigningKeys == {JwtSecret, "other"}

\* A token string: a JWT (its payload, issue and expiry times and the key it
\* was signed with), a string that is no JWT, or the empty string.
Jwt(c, e, k) == [form |-> "jwt", claims |-> c, iat |-> 0, exp |-> e, key |-> k]
GarbageToken == [form |-> "garbage", claims |-> NoUser, iat |-> 0, exp |-> 0, key |-> ""]
EmptyToken == [form |-> "empty", claims |-> NoUser, iat |-> 0, exp |-> 0, key |-> ""]
NullToken == [form |-> "null", claims |-> NoUser, iat |-> 0, exp |-> 0, key |-> ""]

Tokens ==
    {Jwt(c, e, k) : c \in Claims, e \in 1..MaxTime, k \in SigningKeys}
        \cup {GarbageToken, EmptyToken}

\* An Authorization header: absent, or a string made of a scheme prefix and
\* the rest.  The prefixes differ from "Bearer " in case, in the missing
\* space, or altogether.
NoAuthorization == [present |-> FALSE, scheme |-> "", token |-> NullToken]
AuthorizationHeader(scheme, t) == [present |-> TRUE, scheme |-> scheme, token |-> t]

AuthorizationHeaders ==
    {NoAuthorization}
        \cup {AuthorizationHeader("Bearer ", t) : t \in Tokens}
        \cup {AuthorizationHeader(sc, Jwt(c, MaxTime, JwtSecret)) :
                sc \in {"Basic ", "bearer ", "Bearer"}, c \in Claims}

\* An X-API-Key header: absent, or a string (possibly empty).
NoApiKey == [present |-> FALSE, value |-> ""]
ApiKeyHeader(v) == [present |-> TRUE, value |-> v]
StaticKey == "k-static"
ApiKeyValues == {StaticKey, "k-session", "k-unknown"}
ApiKeyHeaders == {NoApiKey, ApiKeyHeader("")} \cup {ApiKeyHeader(v) : v \in ApiKeyValues}

\* Rows of the session table.
SessionRows ==
    [token : {StaticKey, "k-session"},
     owner : {[userId |-> "u1", userType |-> "user"],
              [userId |-> "a1", userType |-> "admin"]},
     expiresAt : 0..MaxTime]
NoRow == [token |-> "", owner |-> [userId |-> "", userType |-> ""], expiresAt |-> 0]

\* The request before any middleware ran, and the response before anything
\* was sent.
Request(authorization, xApiKey) ==
    [authorization |-> authorization, xApiKey |-> xApiKey, user |-> NoUser,
     stage |-> "received", mw |-> "none"]
NoRequest ==
    [authorization |-> NoAuthorization, xApiKey |-> NoApiKey, user |-> NoUser,
     stage |-> "none", mw |-> "none"]
NoResponse == [status |-> 0, message |-> "", nextCalls |-> 0, lookup |-> "none"]

----------------------------------------------------------------------------
(* Persistent entities *)

RoleIds == {1, 2}
UserIds == {"u1"}
AdminIds == {"a1"}

\* Permission strings, and the permissions column: null, or the JSON text of
\* an array.
Permissions == {"read:comments", "write:comments"}
NullPermissions == [null |-> TRUE, array |-> {}]
PermissionsText(S) == [null |-> FALSE, array |-> S]

\* A role row, and the absence of one.
RoleRow(name, isDefault, isActive, permissions) ==
    [name |-> name, slug |-> name, isDefault |-> isDefault, isActive |-> isActive,
     permissions |-> permissions]
NoRole == RoleRow("", FALSE, FALSE, NullPermissions)

\* A user row, and the absence of one.
UserRow(email, roleId, isActive) ==
    [email |-> email, roleId |-> roleId, isActive |-> isActive]
NoUserRow == UserRow("", 0, FALSE)

\* The request tasks that may be inside a service call, and a task that is
\* not.
Procs == {"t1", "t2"}
NoProc ==
    [op |-> "none", pc |-> "idle", roleId |-> 0, userId |-> "", adminId |-> "",
     flag |-> FALSE, readRole |-> 0, readActive |-> FALSE, events |-> <<>>,
     status |-> 0]

\* A route: the middleware mounted on it, in order, with the position of the
\* request in it and what the middleware that ran last saw and did.
Mw(name, args) == [mw |-> name, args |-> args]
Route(name, chain) ==
    [name |-> name, chain |-> chain, pos |-> 1, by |-> "none",
     userBefore |-> NoUser, next |-> FALSE, lookup |-> "none",
     handled |-> FALSE]
NoRoute == Route("none", <<>>)

----------------------------------------------------------------------------
(* The HTTP response cache, the process, tokens and socket connections      *)

\* The GET routes mounted behind cacheMiddleware that the model follows.
\* cacheMiddleware keeps a response under `cache:${req.originalUrl}`.
RoleUrl == "/api/roles/1"
ProfileUrl == "/api/admin/profile"
StatsUrl == "/api/dashboard/stats"
PageUrls == {RoleUrl, ProfileUrl, StatsUrl}

\* The last 2xx answer sent for a url: the text of its body, whether the
\* middleware's redis.set of it reached the keyspace, and whether the entity
\* it shows was updated since.
Answer(text, stored, updated) ==
    [text |-> text, stored |-> stored, updated |-> updated]
NoAnswer == Answer(Nil, FALSE, FALSE)

\* A GET request: its url and principal, where it is in the chain, what the
\* middleware saw (a rejected redis.get, the answer sent before it arrived,
\* no other request or update beside it), whether
\* res.json was wrapped, whether the controller and the producer ran, and
\* the response (status 0: none yet).
HttpRequest(url, user) ==
    [url |-> url, user |-> user, pc |-> "cacheMiddleware", raised |-> FALSE, prior |-> NoAnswer, wrapped |-> FALSE, invoked |-> FALSE,
     produced |-> FALSE, alone |-> TRUE, data |-> JsUndefined, status |-> 0,
     body |-> Nil]
NoHttp == [HttpRequest("", "") EXCEPT !.pc = "idle"]

\* The process before startServer runs: where it is in startServer or in
\* shutdown, whether the database and the Redis server can be reached,
\* whether the Redis client keeps retrying a connection that fails, the
\* state of the two clients, whether the HTTP server accepts connections,
\* what startServer failed on, the exit code (-1 while the process runs),
\* where each request in flight is, and whether a request issued a command
\* on a client that shutdown had disconnected, or was cut off by the exit.
NoServer ==
    [phase |-> "off", dbUp |-> FALSE, redisUp |-> FALSE, retry |-> FALSE,
     prisma |-> "closed",
     redis |-> "closed", accepting |-> FALSE, failed |-> "", exitCode |-> 0 - 1,
     inflight |-> [p \in Procs |-> "none"], sawClosed |-> FALSE,
     aborted |-> FALSE]

\* No token signed yet.
NoJwt ==
    [clock |-> 0, token |-> NullToken, claims |-> NoUser, ttl |-> 0,
     signedAt |-> 0, result |-> NoUser, verified |-> FALSE]

\* No socket connected.  A socket: where it is (handshake, connection,
\* connected), the token of its handshake, socket.data.user, the handlers
\* applied to it, the rooms it joined and the events emitted to it.
NoSock ==
    [pc |-> "none", token |-> NullToken, user |-> NoUser, handlers |-> {},
     rooms |-> {}, received |-> {}]

WebIdle ==
    /\ pages = [u \in PageUrls |-> Nil]
    /\ http = [p \in Procs |-> NoHttp]
    /\ answer = [u \in PageUrls |-> NoAnswer]
    /\ server = NoServer
    /\ jwt = NoJwt
    /\ sock = NoSock

----------------------------------------------------------------------------
(* The record of the cacheService call that returned in the last step: what *)
(* the call was given, what it saw of the cache and what came back.         *)

CallRecord(op, key, ready, readyAtSet, raised, before, after, changed,
           hbefore, invoked, fetched, rejected, result, threw) ==
    [op |-> op, key |-> key,
     ready |-> ready,            \* isReady() at the call's first guard
     readyAtSet |-> readyAtSet,  \* isReady() at getOrSet's set
     raised |-> raised,          \* whether the store raised an error in the call
     before |-> before,          \* the entry under key when the call started
     after |-> after,            \* the entry under key when the call returned
     changed |-> changed,        \* whether the call changed the keyspace
     hbefore |-> hbefore,        \* hist[key] when the call started
     invoked |-> invoked,        \* how many times the fetcher was invoked
     fetched |-> fetched,        \* the value the fetcher resolved to
     rejected |-> rejected,      \* whether the fetcher rejected
     result |-> result,          \* the value returned
     threw |-> threw]            \* whether an exception reached the caller

NoRecord ==
    CallRecord("none", <<>>, FALSE, FALSE, FALSE, Nil, Nil, FALSE,
               "none", 0, JsUndefined, FALSE, JsUndefined, FALSE)

NoCall ==
    [pc |-> "idle", key |-> <<>>, ready |-> FALSE, raised |-> FALSE,
     before |-> Nil, hbefore |-> "none", data |-> JsUndefined]

\* No call is being observed: the caller has taken the last result.
Quiet == last = NoRecord

Idle == call.pc = "idle" /\ Quiet

\* hist[k]: once delete(k) or a deletePattern matching k has returned, how
\* that call ran: "deletedReady" with the cache ready and no store error,
\* "deletedNotReady" with the cache not ready, "deletedFault" with a store
\* error; until the next getOrSet(k) or set(k) returns.  "filled" once a
\* getOrSet(k) has computed and stored with the cache ready and no store
\* error, until the entry expires, is invalidated or overwritten, or the
\* ready flag changes.
Unfill(h) == IF h = "filled" THEN "none" ELSE h
Refill(h) == IF h = "filled" THEN "filled" ELSE "none"
Deleted(fault) ==
    IF ~IsReady THEN "deletedNotReady"
    ELSE IF Raised(fault) THEN "deletedFault"
    ELSE "deletedReady"

InitCache ==
    /\ store = [k \in Keys |-> Nil]
    /\ isConnected = FALSE
    /\ call = NoCall
    /\ last = NoRecord
    /\ hist = [k \in Keys |-> "none"]
    /\ cfgApiKey = ""
    /\ sessions = {}
    /\ now = 0
    /\ req = NoRequest
    /\ res = NoResponse
    /\ route = NoRoute
    /\ roles = [i \in RoleIds |-> NoRole]
    /\ users = [u \in UserIds |-> NoUserRow]
    /\ admins = {}
    /\ procs = [p \in Procs |-> NoProc]
    /\ WebIdle

----------------------------------------------------------------------------
(* RedisClient events and the server's TTL *)

\* client.on('connect')
RedisConnectEvent ==
    /\ Quiet
    /\ isConnected' = TRUE
    /\ hist' = IF isConnected THEN hist ELSE [k \in Keys |-> Unfill(hist[k])]
    /\ UNCHANGED <<store, call, last>>
    /\ UNCHANGED <<authVars, route, dbVars, procs, webVars>>

\* client.on('error')
RedisErrorEvent ==
    /\ Quiet
    /\ isConnected' = FALSE
    /\ hist' = IF isConnected THEN [k \in Keys |-> Unfill(hist[k])] ELSE hist
    /\ UNCHANGED <<store, call, last>>
    /\ UNCHANGED <<authVars, route, dbVars, procs, webVars>>

\* client.on('disconnect')
RedisDisconnectEvent ==
    /\ Quiet
    /\ isConnected' = FALSE
    /\ hist' = IF isConnected THEN [k \in Keys |-> Unfill(hist[k])] ELSE hist
    /\ UNCHANGED <<store, call, last>>
    /\ UNCHANGED <<authVars, route, dbVars, procs, webVars>>

\* The server drops an entry whose TTL (setEx) has run out.
Expire(k) ==
    /\ Quiet
    /\ store[k] # Nil
    /\ store' = [store EXCEPT ![k] = Nil]
    /\ hist' = [hist EXCEPT ![k] = Unfill(@)]
    /\ UNCHANGED <<isConnected, call, last>>
    /\ UNCHANGED <<authVars, route, dbVars, procs, webVars>>

----------------------------------------------------------------------------
(* Calls of the cache service, one caller at a time *)

Get(k, fault) ==
    /\ Idle
    /\ LET o == CacheGet(k, fault)
       IN /\ store' = o.store
          /\ last' = CallRecord("get", k, IsReady, IsReady, Raised(fault),
                                store[k], o.store[k], o.store # store,
                                hist[k], 0, JsUndefined, FALSE, o.value, o.threw)
    /\ UNCHANGED <<isConnected, call, hist>>
    /\ UNCHANGED <<authVars, route, dbVars, procs, webVars>>

Set(k, v, fault) ==
    /\ Idle
    /\ LET o == CacheSet(k, v, fault)
       IN /\ store' = o.store
          /\ last' = CallRecord("set", k, IsReady, IsReady, Raised(fault),
                                store[k], o.store[k], o.store # store,
                                hist[k], 0, JsUndefined, FALSE, o.value, o.threw)
    /\ hist' = [hist EXCEPT ![k] = "none"]
    /\ UNCHANGED <<isConnected, call>>
    /\ UNCHANGED <<authVars, route, dbVars, procs, webVars>>

Delete(k, fault) ==
    /\ Idle
    /\ LET o == CacheDelete(k, fault)
       IN /\ store' = o.store
          /\ last' = CallRecord("delete", k, IsReady, IsReady, Raised(fault),
                                store[k], o.store[k], o.store # store,
                                hist[k], 0, JsUndefined, FALSE, o.value, o.threw)
    /\ hist' = [hist EXCEPT ![k] = Deleted(fault)]
    /\ UNCHANGED <<isConnected, call>>
    /\ UNCHANGED <<authVars, route, dbVars, procs, webVars>>

DeletePattern(pattern, fault, D) ==
    /\ Idle
    /\ IF Raised(fault) THEN D \subseteq RedisKeys(pattern) ELSE D = {}
    /\ LET o == CacheDeletePattern(pattern, fault, D)
       IN /\ store' = o.store
          /\ last' = CallRecord("deletePattern", pattern, IsReady, IsReady,
                                Raised(fault), Nil, Nil, o.store # store,
                                "none", 0, JsUndefined, FALSE, o.value, o.threw)
    /\ hist' = [k \in Keys |-> IF GlobMatch(pattern, k) THEN Deleted(fault) ELSE hist[k]]
    /\ UNCHANGED <<isConnected, call>>
    /\ UNCHANGED <<authVars, route, dbVars, procs, webVars>>

Clear(fault) ==
    /\ Idle
    /\ LET o == CacheClear(fault)
       IN /\ store' = o.store
          /\ last' = CallRecord("clear", <<>>, IsReady, IsReady,
                                Raised(fault), Nil, Nil, o.store # store,
                                "none", 0, JsUndefined, FALSE, o.value, o.threw)
    /\ UNCHANGED <<isConnected, call, hist>>
    /\ UNCHANGED <<authVars, route, dbVars, procs, webVars>>

\* getOrSet up to its await of the fetcher: `cached = await this.get(key)`
GetOrSetBegin(k, fault) ==
    /\ Idle
    /\ LET o == CacheGet(k, fault)
           raised == Raised(fault)
       IN IF o.threw
          THEN /\ last' = CallRecord("getOrSet", k, IsReady, IsReady, raised,
                                     store[k], o.store[k], o.store # store,
                                     hist[k], 0, JsUndefined, FALSE, JsUndefined, TRUE)
               /\ UNCHANGED <<call, hist>>
          ELSE IF GetOrSetHit(o.value)
          THEN /\ last' = CallRecord("getOrSet", k, IsReady, IsReady, raised,
                                     store[k], o.store[k], o.store # store,
                                     hist[k], 0, JsUndefined, FALSE, o.value, FALSE)
               /\ hist' = [hist EXCEPT ![k] = Refill(@)]
               /\ UNCHANGED call
          ELSE /\ call' = [pc |-> "fetch", key |-> k, ready |-> IsReady,
                           raised |-> raised, before |-> store[k],
                           hbefore |-> hist[k], data |-> JsUndefined]
               /\ UNCHANGED <<last, hist>>
    /\ UNCHANGED <<store, isConnected>>
    /\ UNCHANGED <<authVars, route, dbVars, procs, webVars>>

\* `data = await fetcher()` resolves
FetcherReturns(v) ==
    /\ Quiet
    /\ call.pc = "fetch"
    /\ call' = [call EXCEPT !.pc = "set", !.data = v]
    /\ UNCHANGED <<store, isConnected, last, hist>>
    /\ UNCHANGED <<authVars, route, dbVars, procs, webVars>>

\* `await fetcher()` rejects
FetcherThrows ==
    /\ Quiet
    /\ call.pc = "fetch"
    /\ LET o == GetOrSetRejected(call.key)
       IN /\ store' = o.store
          /\ last' = CallRecord("getOrSet", call.key, call.ready, IsReady,
                                call.raised, call.before, o.store[call.key],
                                o.store # store, call.hbefore, 1, JsUndefined, TRUE,
                                o.value, o.threw)
    /\ hist' = [hist EXCEPT ![call.key] = Refill(@)]
    /\ call' = NoCall
    /\ UNCHANGED isConnected
    /\ UNCHANGED <<authVars, route, dbVars, procs, webVars>>

\* `await this.set(key, data, ttlSeconds); return data;`
GetOrSetStore(fault) ==
    /\ Quiet
    /\ call.pc = "set"
    /\ LET o == CacheSet(call.key, call.data, fault)
       IN /\ store' = o.store
          /\ last' = CallRecord("getOrSet", call.key, call.ready, IsReady,
                                call.raised \/ (Raised(fault)),
                                call.before, o.store[call.key],
                                o.store # store, call.hbefore, 1, call.data, FALSE,
                                call.data, o.threw)
    /\ hist' = [hist EXCEPT ![call.key] =
                  IF call.ready /\ IsReady /\ ~call.raised /\ ~Raised(fault)
                  THEN "filled" ELSE "none"]
    /\ call' = NoCall
    /\ UNCHANGED isConnected
    /\ UNCHANGED <<authVars, route, dbVars, procs, webVars>>

\* The faults a command can meet: none when no command is sent (the cache is
\* not ready); a read has no effect to lose.
WriteFaults == IF IsReady THEN FaultKinds ELSE {"none"}
ReadFaults == IF IsReady THEN {"none", "rejected"} ELSE {"none"}

\* The caller's continuation takes the result of the call that returned.
CallerResumes ==
    /\ ~Quiet
    /\ last' = NoRecord
    /\ UNCHANGED <<store, isConnected, call, hist>>
    /\ UNCHANGED <<authVars, route, dbVars, procs, webVars>>

CacheNext ==
    \/ CallerResumes
    \/ RedisConnectEvent
    \/ RedisErrorEvent
    \/ RedisDisconnectEvent
    \/ \E k \in Keys : Expire(k)
    \/ \E k \in Keys, f \in ReadFaults : Get(k, f)
    \/ \E k \in Keys, v \in SetValues, f \in WriteFaults : Set(k, v, f)
    \/ \E k \in Keys, f \in WriteFaults : Delete(k, f)
    \/ \E p \in Patterns, f \in WriteFaults :
          \E D \in SUBSET RedisKeys(p) : DeletePattern(p, f, D)
    \/ \E f \in WriteFaults : Clear(f)
    \/ \E k \in Keys, f \in ReadFaults : GetOrSetBegin(k, f)
    \/ \E v \in ProducerValues : FetcherReturns(v)
    \/ FetcherThrows
    \/ \E f \in WriteFaults : GetOrSetStore(f)

SpecCache == InitCache /\ [][CacheNext]_vars

----------------------------------------------------------------------------
(* Properties of the cache service (checked under SpecCache) *)

\* C1: with the cache ready and no store error, a getOrSet(k, p) that finds no
\* entry under k invokes p exactly once and leaves p's result stored under k,
\* and the next getOrSet(k, p), with no expiry, invalidation or change of the
\* ready flag in between, returns the stored value without invoking p; for
\* every value p can return.
C1_GetOrSetComputesOnceThenHits ==
    (last.op = "getOrSet" /\ last.ready /\ last.readyAtSet /\ ~last.raised
       /\ ~last.rejected)
    => /\ last.before = Nil =>
            /\ last.invoked = 1
            /\ last.after # Nil
            /\ last.after = JSONstringify(last.fetched)
       /\ last.hbefore = "filled" =>
            /\ last.invoked = 0
            /\ last.before # Nil
            /\ last.result = JSONparse(last.before)

\* C2 as stated: once delete(k), or a deletePattern whose pattern matches k,
\* has returned, the next getOrSet(k, p) invokes p, whatever the ready flag
\* did before (stated here for calls that met no store error).
C2_DeleteThenMiss ==
    (last.op = "getOrSet" /\ last.hbefore \in {"deletedReady", "deletedNotReady"})
    => last.invoked = 1

\* C2 amended: once delete(k), or a deletePattern whose pattern matches k, has
\* run with the cache ready and without a store error, the next getOrSet(k, p)
\* is a miss and invokes p.
C2_ReadyDeleteThenMiss ==
    (last.op = "getOrSet" /\ last.hbefore = "deletedReady")
    => last.invoked = 1 /\ last.before = Nil

C2_Witness ==
    /\ last.op = "getOrSet"
    /\ last.hbefore = "deletedReady"
    /\ last.ready /\ ~last.raised
    /\ last.invoked = 1
    /\ Truthy(last.result)

\* C3: a call made while isReady() is false: get returns null (a miss); set,
\* delete, deletePattern and clear leave the keyspace as it is; getOrSet
\* invokes the fetcher, returns its value, and throws only if the fetcher did.
C3_NotReadyDegrades ==
    (last.op # "none" /\ ~last.ready)
    => /\ last.op = "get" => last.result = JsNull /\ ~last.threw
       /\ last.op \in {"get", "set", "delete", "deletePattern", "clear"}
            => ~last.changed /\ ~last.threw
       /\ last.op = "getOrSet" =>
            /\ last.invoked = 1
            /\ last.threw = last.rejected
            /\ ~last.rejected => last.result = last.fetched

C3_Witness ==
    /\ last.op = "getOrSet"
    /\ ~last.ready
    /\ last.before # Nil
    /\ last.invoked = 1
    /\ Truthy(last.result)

\* C4: when the fetcher passed to getOrSet rejects, the exception reaches the
\* caller and the call writes nothing: the keyspace is as the call found it.
C4_FetcherFailureNotCached ==
    (last.op = "getOrSet" /\ last.rejected)
    => last.threw /\ ~last.changed /\ last.invoked = 1

C4_Witness ==
    /\ last.op = "getOrSet"
    /\ last.rejected
    /\ last.ready /\ last.readyAtSet
    /\ last.threw

\* C5: a store error during get, set, delete, deletePattern or clear does not
\* reach the caller: get returns null, the others return normally, and
\* getOrSet invokes the fetcher and returns its value.
C5_StoreErrorsSwallowed ==
    last.raised
    => /\ last.op # "getOrSet" => ~last.threw
       /\ last.op = "get" => last.result = JsNull
       /\ last.op = "getOrSet" =>
            /\ last.invoked = 1
            /\ last.threw = last.rejected
            /\ ~last.rejected => last.result = last.fetched

C5_Witness ==
    /\ last.op = "getOrSet"
    /\ last.raised
    /\ last.before # Nil
    /\ ~last.threw
    /\ Truthy(last.result)

----------------------------------------------------------------------------
(* utils/jwt.util *)

\* extractTokenFromHeader: null unless the header starts with 'Bearer ',
\* else the rest of it.
ExtractTokenFromHeader(h) ==
    IF ~h.present \/ h.scheme # "Bearer " THEN NullToken ELSE h.token

\* `!token`: null or the empty string
TokenFalsy(t) == t.form \in {"null", "empty"}

\* jwt.verify(token, secret): the payload with iat and exp, when the token is
\* a JWT signed with the secret whose exp lies in the future.
JwtVerifies(t) == t.form = "jwt" /\ t.key = JwtSecret /\ now < t.exp
Decoded(t) ==
    [id |-> t.claims.id, email |-> t.claims.email, role |-> t.claims.role,
     type |-> t.claims.type, iat |-> t.iat, exp |-> t.exp]

\* verifyToken with jwt.decode in place of jwt.verify: neither the signature
\* nor the expiry is checked.
VerifyTokenDecodesOnly(t) == IF t.form = "jwt" THEN Decoded(t) ELSE NoUser

\* verifyToken: try { return jwt.verify(...) } catch { return null }
VerifyToken(t) == IF JwtVerifies(t) THEN Decoded(t) ELSE NoUser

----------------------------------------------------------------------------
(* middleware/request.middleware: authentication *)

\* What a middleware does with the request: the principal it attaches, the
\* response it sends (status 0: none), whether it calls next(), and whether
\* it queried the session table ("none", "done", "failed").
Continue(user, lookup) ==
    [user |-> user, status |-> 0, message |-> "", next |-> TRUE, lookup |-> lookup]
SendUnauthorized(message, lookup) ==
    [user |-> NoUser, status |-> Unauthorized, message |-> message, next |-> FALSE,
     lookup |-> lookup]

\* The principal of the configured API key, and of a session row.
SystemUser ==
    [id |-> "system", email |-> "api@system.local", role |-> "api", type |-> "admin"]
SessionUser(row) ==
    [id |-> row.owner.userId, email |-> "api-user", role |-> "api",
     type |-> row.owner.userType]

\* `!apiKey`
ApiKeyFalsy(h) == ~h.present \/ h.value = ""

\* findFirst without the expiresAt filter.
FindFirstSessionAnyExpiry(key) ==
    LET rows == {r \in sessions : r.token = key}
    IN IF rows = {} THEN {NoRow} ELSE rows

\* prisma.session.findFirst({ where: { token, expiresAt: { gte: now } } }):
\* the rows it may return (null when none matches).
FindFirstSession(key) ==
    LET rows == {r \in sessions : r.token = key /\ r.expiresAt >= now}
    IN IF rows = {} THEN {NoRow} ELSE rows

\* The API-key part shared by authenticateApiKey and multiAuth: the static
\* key, then the session table; `failure` is sent when neither matches.
ApiKeyCheck(h, dbFails, row, failure) ==
    IF cfgApiKey # "" /\ h.value = cfgApiKey THEN Continue(SystemUser, "none")
    ELSE IF dbFails THEN SendUnauthorized(failure, "failed")
    ELSE IF row # NoRow THEN Continue(SessionUser(row), "done")
    ELSE SendUnauthorized(failure, "done")

\* authenticate that attaches whatever the token decodes to.
AuthenticateNoVerify(r) ==
    LET token == ExtractTokenFromHeader(r.authorization)
    IN IF TokenFalsy(token) THEN SendUnauthorized("Access token is required", "none")
       ELSE IF VerifyTokenDecodesOnly(token) = NoUser
            THEN SendUnauthorized("Invalid or expired token", "none")
            ELSE Continue(VerifyTokenDecodesOnly(token), "none")

\* authenticate
Authenticate(r) ==
    LET token == ExtractTokenFromHeader(r.authorization)
    IN IF TokenFalsy(token) THEN SendUnauthorized("Access token is required", "none")
       ELSE IF VerifyToken(token) = NoUser
            THEN SendUnauthorized("Invalid or expired token", "none")
            ELSE Continue(VerifyToken(token), "none")

\* authenticateApiKey
AuthenticateApiKey(r, dbFails, row) ==
    IF ApiKeyFalsy(r.xApiKey) THEN SendUnauthorized("API key is required", "none")
    ELSE ApiKeyCheck(r.xApiKey, dbFails, row, "Invalid API key")

\* multiAuth that looks at the API key before the bearer token.
MultiAuthKeyFirst(r, dbFails, row) ==
    LET token == ExtractTokenFromHeader(r.authorization)
        byKey == ApiKeyCheck(r.xApiKey, dbFails, row, "")
    IN IF ~ApiKeyFalsy(r.xApiKey) /\ byKey.next THEN byKey
       ELSE IF ~TokenFalsy(token) /\ VerifyToken(token) # NoUser
            THEN Continue(VerifyToken(token), "none")
            ELSE SendUnauthorized(
                     "Authentication required. Provide JWT token or API key", "none")

\* multiAuth that answers 401 as soon as a bearer token is present and fails.
MultiAuthNoFallback(r, dbFails, row) ==
    LET token == ExtractTokenFromHeader(r.authorization)
    IN IF ~TokenFalsy(token)
       THEN IF VerifyToken(token) # NoUser
            THEN Continue(VerifyToken(token), "none")
            ELSE SendUnauthorized("Invalid or expired token", "none")
       ELSE IF ~ApiKeyFalsy(r.xApiKey)
            THEN ApiKeyCheck(r.xApiKey, dbFails, row,
                     "Authentication required. Provide JWT token or API key")
            ELSE SendUnauthorized(
                     "Authentication required. Provide JWT token or API key", "none")

\* multiAuth
MultiAuth(r, dbFails, row) ==
    LET token == ExtractTokenFromHeader(r.authorization)
    IN IF ~TokenFalsy(token) /\ VerifyToken(token) # NoUser
       THEN Continue(VerifyToken(token), "none")
       ELSE IF ~ApiKeyFalsy(r.xApiKey)
            THEN ApiKeyCheck(r.xApiKey, dbFails, row,
                     "Authentication required. Provide JWT token or API key")
            ELSE SendUnauthorized(
                     "Authentication required. Provide JWT token or API key", "none")

\* optionalAuth that rejects a token it cannot verify.
OptionalAuthRejectsInvalid(r) ==
    LET token == ExtractTokenFromHeader(r.authorization)
    IN IF ~TokenFalsy(token) /\ VerifyToken(token) = NoUser
       THEN SendUnauthorized("Invalid or expired token", "none")
       ELSE Continue(IF TokenFalsy(token) THEN NoUser ELSE VerifyToken(token), "none")

\* optionalAuth
OptionalAuth(r) ==
    LET token == ExtractTokenFromHeader(r.authorization)
    IN IF ~TokenFalsy(token) /\ VerifyToken(token) # NoUser
       THEN Continue(VerifyToken(token), "none")
       ELSE Continue(NoUser, "none")

----------------------------------------------------------------------------
(* One request through an authentication middleware *)

\* The request, the configured key and the session table are inputs; the
\* cache plays no part.
InitAuth ==
    /\ cfgApiKey \in {"", StaticKey}
    /\ sessions \in {S \in SUBSET SessionRows : Cardinality(S) <= MaxSessions}
    /\ now = 0
    /\ req \in {Request(a, x) : a \in AuthorizationHeaders, x \in ApiKeyHeaders}
    /\ res = NoResponse
    /\ store = [k \in Keys |-> Nil]
    /\ isConnected = FALSE
    /\ call = NoCall
    /\ last = NoRecord
    /\ hist = [k \in Keys |-> "none"]
    /\ route = NoRoute
    /\ roles = [i \in RoleIds |-> NoRole]
    /\ users = [u \in UserIds |-> NoUserRow]
    /\ admins = {}
    /\ procs = [p \in Procs |-> NoProc]
    /\ WebIdle

\* The middleware's outcome applied to the request and the response.
Ran(mw, o) ==
    /\ req' = [req EXCEPT !.user = o.user, !.mw = mw,
                          !.stage = IF o.next THEN "authenticated" ELSE "responded"]
    /\ res' = [status |-> o.status, message |-> o.message,
               nextCalls |-> IF o.next THEN 1 ELSE 0, lookup |-> o.lookup]
    /\ UNCHANGED <<cfgApiKey, sessions, now>>
    /\ UNCHANGED <<cacheVars, route, dbVars, procs, webVars>>

\* Time passes before the request reaches the middleware.
Tick ==
    /\ req.stage = "received"
    /\ now < MaxTime
    /\ now' = now + 1
    /\ UNCHANGED <<cfgApiKey, sessions, req, res>>
    /\ UNCHANGED <<cacheVars, route, dbVars, procs, webVars>>

RunAuthenticate ==
    /\ req.stage = "received"
    /\ Ran("authenticate", Authenticate(req))

RunAuthenticateApiKey(dbFails, row) ==
    /\ req.stage = "received"
    /\ row \in FindFirstSession(req.xApiKey.value)
    /\ Ran("authenticateApiKey", AuthenticateApiKey(req, dbFails, row))

RunMultiAuth(dbFails, row) ==
    /\ req.stage = "received"
    /\ row \in FindFirstSession(req.xApiKey.value)
    /\ Ran("multiAuth", MultiAuth(req, dbFails, row))

RunOptionalAuth ==
    /\ req.stage = "received"
    /\ Ran("optionalAuth", OptionalAuth(req))

AuthNext ==
    \/ Tick
    \/ RunAuthenticate
    \/ \E dbFails \in BOOLEAN, row \in SessionRows \cup {NoRow} :
          RunAuthenticateApiKey(dbFails, row)
    \/ \E dbFails \in BOOLEAN, row \in SessionRows \cup {NoRow} :
          RunMultiAuth(dbFails, row)
    \/ RunOptionalAuth

SpecAuth == InitAuth /\ [][AuthNext]_vars

----------------------------------------------------------------------------
(* Properties of the authentication middleware *)

\* What the request carried, stated on the headers themselves.
BearerPresented ==
    /\ req.authorization.present
    /\ req.authorization.scheme = "Bearer "
    /\ req.authorization.token.form # "empty"
BearerValid ==
    /\ BearerPresented
    /\ req.authorization.token.form = "jwt"
    /\ req.authorization.token.key = JwtSecret
    /\ req.authorization.token.exp > now
BearerClaimsAttached ==
    /\ req.user # NoUser
    /\ req.user.id = req.authorization.token.claims.id
    /\ req.user.email = req.authorization.token.claims.email
    /\ req.user.role = req.authorization.token.claims.role
    /\ req.user.type = req.authorization.token.claims.type
KeyPresented == req.xApiKey.present /\ req.xApiKey.value # ""
KeyIsStatic == KeyPresented /\ cfgApiKey # "" /\ req.xApiKey.value = cfgApiKey
LiveSessions ==
    {r \in sessions : r.token = req.xApiKey.value /\ r.expiresAt >= now}
SessionClaimsAttached ==
    \E r \in LiveSessions :
        req.user = [id |-> r.owner.userId, email |-> "api-user", role |-> "api",
                    type |-> r.owner.userType]
SystemClaimsAttached ==
    req.user = [id |-> "system", email |-> "api@system.local", role |-> "api",
                type |-> "admin"]
Admitted == res.status = 0 /\ res.nextCalls = 1 /\ req.stage = "authenticated"
Rejected(message) ==
    /\ res.status = 401
    /\ res.message = message
    /\ res.nextCalls = 0
    /\ req.user = NoUser
    /\ req.stage = "responded"

\* C6: authenticate answers 401 "Access token is required" without calling
\* next when the Authorization header is missing or not a Bearer header,
\* answers 401 "Invalid or expired token" when the token fails verification
\* (wrong signature, expired, malformed), and only for a token that verifies
\* sets req.user to the decoded claims and calls next.
C6_BearerOnlyAuthenticate ==
    req.mw = "authenticate" =>
        /\ ~BearerPresented => Rejected("Access token is required")
        /\ BearerPresented /\ ~BearerValid => Rejected("Invalid or expired token")
        /\ BearerValid => Admitted /\ BearerClaimsAttached
        /\ Admitted => BearerValid

\* C6 witness: authenticate rejected a correctly signed token that had
\* expired by the time the request arrived.
C6_Witness ==
    /\ req.mw = "authenticate"
    /\ BearerPresented
    /\ req.authorization.token.form = "jwt"
    /\ req.authorization.token.key = JwtSecret
    /\ req.authorization.token.exp <= now
    /\ res.status = 401

\* C7: authenticateApiKey answers 401 "API key is required" when no key is
\* sent; a key equal to the configured non-empty static key yields the
\* system principal without a session lookup; otherwise an unexpired session
\* row with that token yields the principal of its owner with role "api";
\* in every other case, a failed lookup included, the answer is 401
\* "Invalid API key" and next is not called.
C7_ApiKeyOnlyAuthenticate ==
    req.mw = "authenticateApiKey" =>
        LET found == res.lookup = "done" /\ LiveSessions # {}
        IN /\ ~KeyPresented => Rejected("API key is required") /\ res.lookup = "none"
           /\ KeyIsStatic => Admitted /\ SystemClaimsAttached /\ res.lookup = "none"
           /\ KeyPresented /\ ~KeyIsStatic => res.lookup # "none"
           /\ KeyPresented /\ ~KeyIsStatic /\ found =>
                  Admitted /\ SessionClaimsAttached
           /\ KeyPresented /\ ~KeyIsStatic /\ ~found => Rejected("Invalid API key")

\* C7 witness: authenticateApiKey rejected a key whose only session row had
\* expired.
C7_Witness ==
    /\ req.mw = "authenticateApiKey"
    /\ KeyPresented /\ ~KeyIsStatic
    /\ res.lookup = "done"
    /\ \E r \in sessions : r.token = req.xApiKey.value /\ r.expiresAt < now
    /\ res.status = 401

\* C8: multiAuth attaches the bearer token's claims when it verifies,
\* whatever API key the request carries; when the bearer token is absent or
\* invalid it tries the API key (static key, then session table); it answers
\* 401 "Authentication required. Provide JWT token or API key" exactly when
\* both credentials fail.
C8_MultiAuthBearerThenKey ==
    req.mw = "multiAuth" =>
        LET found == res.lookup = "done" /\ LiveSessions # {}
            keyOk == KeyPresented /\ (KeyIsStatic \/ found)
        IN /\ BearerValid => Admitted /\ BearerClaimsAttached /\ res.lookup = "none"
           /\ ~BearerValid /\ KeyIsStatic => Admitted /\ SystemClaimsAttached
           /\ ~BearerValid /\ KeyPresented /\ ~KeyIsStatic /\ found =>
                  Admitted /\ SessionClaimsAttached
           /\ res.status = 401 <=> (~BearerValid /\ ~keyOk)
           /\ res.status = 401 =>
                  Rejected("Authentication required. Provide JWT token or API key")
           /\ res.status # 401 => Admitted

\* C8 witness: multiAuth admitted a request with a valid bearer token and an
\* API key that would also have been accepted, as the token's principal.
C8_Witness ==
    /\ req.mw = "multiAuth"
    /\ BearerValid
    /\ KeyIsStatic
    /\ Admitted
    /\ BearerClaimsAttached

\* C9 (as stated): under multiAuth a request with a valid static API key and
\* an invalid bearer token is answered 401.
C9_StaticKeyWithInvalidBearerRejected ==
    (req.mw = "multiAuth" /\ KeyIsStatic /\ BearerPresented /\ ~BearerValid) =>
        res.status = 401

\* C9 (amended): under multiAuth a request with a valid static API key is
\* admitted as the system principal when its bearer token is invalid, just
\* as when it carries no bearer token at all.
C9_StaticKeyAdmittedDespiteInvalidBearer ==
    (req.mw = "multiAuth" /\ KeyIsStatic /\ ~BearerValid) =>
        /\ Admitted
        /\ SystemClaimsAttached
        /\ res.lookup = "none"

\* C9 witness: multiAuth admitted, as the system principal, a request with
\* the static key and a bearer token that does not verify.
C9_Witness ==
    /\ req.mw = "multiAuth"
    /\ KeyIsStatic
    /\ BearerPresented /\ ~BearerValid
    /\ res.nextCalls = 1
    /\ SystemClaimsAttached

\* C10: optionalAuth calls next exactly once and sends no response for every
\* Authorization header, and req.user is set if and only if the bearer token
\* verifies.
C10_OptionalAuthNeverFails ==
    req.mw = "optionalAuth" =>
        /\ Admitted
        /\ res.message = ""
        /\ (req.user # NoUser) <=> BearerValid
        /\ BearerValid => BearerClaimsAttached

\* C10 witness: optionalAuth let a request with a token that does not verify
\* through without a principal.
C10_Witness ==
    /\ req.mw = "optionalAuth"
    /\ BearerPresented /\ ~BearerValid
    /\ res.nextCalls = 1
    /\ req.user = NoUser

----------------------------------------------------------------------------
(* middleware/auth.middleware: authorization *)

SendForbidden(user, message, lookup) ==
    [user |-> user, status |-> Forbidden, message |-> message, next |-> FALSE,
     lookup |-> lookup]

\* prisma.user.findUnique({ where: { id } }): the row, or null
FindUniqueUser(id) == IF id \in UserIds THEN users[id] ELSE NoUserRow

\* `user.role.permissions ? JSON.parse(user.role.permissions) : []`
ParsePermissions(text) == IF text.null THEN {} ELSE text.array

\* authorizeType that lets a request without a principal through.
AuthorizeTypeSkipsAnonymous(allowedTypes, r) ==
    IF r.user # NoUser /\ r.user.type \notin allowedTypes
    THEN SendForbidden(r.user, "You do not have permission to access this resource",
                       "none")
    ELSE Continue(r.user, "none")

\* authorizeType(...allowedTypes)
AuthorizeType(allowedTypes, r) ==
    IF r.user = NoUser THEN SendUnauthorized("Authentication required", "none")
    ELSE IF r.user.type \notin allowedTypes
         THEN SendForbidden(r.user,
                  "You do not have permission to access this resource", "none")
         ELSE Continue(r.user, "none")

\* authorizeRole that admits every admin-type principal.
AuthorizeRoleAdmitsAdmins(allowedRoles, r) ==
    IF r.user = NoUser THEN SendUnauthorized("Authentication required", "none")
    ELSE IF r.user.role \notin allowedRoles /\ r.user.type # "admin"
         THEN SendForbidden(r.user,
                  "You do not have permission to access this resource", "none")
         ELSE Continue(r.user, "none")

\* authorizeRole(...allowedRoles)
AuthorizeRole(allowedRoles, r) ==
    IF r.user = NoUser THEN SendUnauthorized("Authentication required", "none")
    ELSE IF r.user.role \notin allowedRoles
         THEN SendForbidden(r.user,
                  "You do not have permission to access this resource", "none")
         ELSE Continue(r.user, "none")

\* authorizePermission with `some` in place of `every`.
AuthorizePermissionAnyOf(required, r, dbFails) ==
    LET user == FindUniqueUser(r.user.id)
    IN IF r.user = NoUser THEN SendUnauthorized("Authentication required", "none")
       ELSE IF r.user.role = "api" THEN Continue(r.user, "none")
       ELSE IF dbFails THEN SendForbidden(r.user, "Permission check failed", "failed")
       ELSE IF user = NoUserRow
            THEN [SendUnauthorized("User not found", "done") EXCEPT !.user = r.user]
       ELSE IF roles[user.roleId] = NoRole
            THEN SendForbidden(r.user, "Permission check failed", "done")
       ELSE IF required # {}
               /\ required \cap ParsePermissions(roles[user.roleId].permissions) = {}
            THEN SendForbidden(r.user, "Insufficient permissions", "done")
            ELSE Continue(r.user, "done")

\* authorizePermission that answers 403 when the user row is not found.
AuthorizePermissionForbidsUnknown(required, r, dbFails) ==
    LET user == FindUniqueUser(r.user.id)
    IN IF r.user = NoUser THEN SendUnauthorized("Authentication required", "none")
       ELSE IF r.user.role = "api" THEN Continue(r.user, "none")
       ELSE IF dbFails THEN SendForbidden(r.user, "Permission check failed", "failed")
       ELSE IF user = NoUserRow
            THEN SendForbidden(r.user, "User not found", "done")
       ELSE IF roles[user.roleId] = NoRole
            THEN SendForbidden(r.user, "Permission check failed", "done")
       ELSE IF ~(required \subseteq ParsePermissions(roles[user.roleId].permissions))
            THEN SendForbidden(r.user, "Insufficient permissions", "done")
            ELSE Continue(r.user, "done")

\* authorizePermission(...requiredPermissions).  The lookup includes the
\* user's role; reading `permissions` of a role that is null throws into the
\* catch block, as a failed lookup does.
AuthorizePermission(required, r, dbFails) ==
    LET user == FindUniqueUser(r.user.id)
    IN IF r.user = NoUser THEN SendUnauthorized("Authentication required", "none")
       ELSE IF r.user.role = "api" THEN Continue(r.user, "none")
       ELSE IF dbFails THEN SendForbidden(r.user, "Permission check failed", "failed")
       ELSE IF user = NoUserRow
            THEN [SendUnauthorized("User not found", "done") EXCEPT !.user = r.user]
       ELSE IF roles[user.roleId] = NoRole
            THEN SendForbidden(r.user, "Permission check failed", "done")
       ELSE IF ~(required \subseteq ParsePermissions(roles[user.roleId].permissions))
            THEN SendForbidden(r.user, "Insufficient permissions", "done")
            ELSE Continue(r.user, "done")

----------------------------------------------------------------------------
(* Routes *)

\* What follows the guards of a route: validateRequest where the route has
\* one, then the rest (cacheMiddleware, controller), here "handler".
AdminOnly == <<Mw("authenticate", {}), Mw("authorizeType", {"admin"})>>
SuperAdminOnly == AdminOnly \o <<Mw("authorizeRole", {"SUPER_ADMIN"})>>

\* routes/admin.routes, routes/role.routes, routes/dashboard.routes
RepositoryRoutes ==
    {Route("POST /api/admin/create",
           SuperAdminOnly \o <<Mw("validateRequest", {}), Mw("handler", {})>>),
     Route("GET /api/admin/profile", AdminOnly \o <<Mw("handler", {})>>),
     Route("POST /api/roles",
           SuperAdminOnly \o <<Mw("validateRequest", {}), Mw("handler", {})>>),
     Route("GET /api/roles", AdminOnly \o <<Mw("handler", {})>>),
     Route("GET /api/dashboard/stats", AdminOnly \o <<Mw("handler", {})>>)}

\* Each authorization middleware mounted behind each authentication
\* middleware that can precede it.
Guards ==
    {Mw("authorizeType", {"admin"}), Mw("authorizeRole", {"SUPER_ADMIN"})}
        \cup {Mw("authorizePermission", P) :
                P \in {{}, {"write:comments"}, Permissions}}
Mounts ==
    {Route("mount", <<Mw(a, {}), g, Mw("handler", {})>>) :
        a \in {"authenticate", "multiAuth", "optionalAuth"}, g \in Guards}

Routes == RepositoryRoutes \cup Mounts

Mounted(rt, name) == \E i \in 1..Len(rt.chain) : rt.chain[i].mw = name

\* The request is at middleware `name` of its route.
At(name) ==
    /\ route.pos <= Len(route.chain)
    /\ route.chain[route.pos].mw = name
    /\ req.stage \in {"received", "authenticated"}

\* The outcome of middleware `name` applied to the request, the response and
\* the position in the route.
Passed(name, o) ==
    /\ req' = [req EXCEPT !.user = o.user, !.mw = name,
                          !.stage = IF o.next THEN "authenticated" ELSE "responded"]
    /\ res' = [status |-> o.status, message |-> o.message,
               nextCalls |-> res.nextCalls + (IF o.next THEN 1 ELSE 0),
               lookup |-> o.lookup]
    /\ route' = [route EXCEPT !.pos = @ + 1, !.by = name, !.userBefore = req.user,
                              !.next = o.next, !.lookup = o.lookup]
    /\ UNCHANGED <<cfgApiKey, sessions, now>>
    /\ UNCHANGED <<cacheVars, dbVars, procs, webVars>>

\* A request arrives on a route.  The session table matters to multiAuth
\* only, the user and role tables to authorizePermission only.
InitRoute ==
    /\ route \in Routes
    /\ cfgApiKey \in {"", StaticKey}
    /\ now \in {0, 1}
    /\ sessions \in
         IF Mounted(route, "multiAuth")
         THEN {S \in SUBSET {r \in SessionRows : r.token = "k-session"} :
                  Cardinality(S) <= MaxSessions}
         ELSE {{}}
    /\ req \in {Request(a, x) : a \in AuthorizationHeaders,
                  x \in {NoApiKey, ApiKeyHeader(StaticKey), ApiKeyHeader("k-session")}}
    /\ res = NoResponse
    /\ roles \in
         IF Mounted(route, "authorizePermission")
         THEN {[i \in RoleIds |->
                   IF i = 1 THEN RoleRow("editor", TRUE, TRUE, t) ELSE NoRole] :
                  t \in {NullPermissions} \cup
                        {PermissionsText(S) : S \in SUBSET Permissions}}
         ELSE {[i \in RoleIds |-> NoRole]}
    /\ users \in
         IF Mounted(route, "authorizePermission")
         THEN {[u \in UserIds |->
                   IF u \in U THEN UserRow(u, 1, TRUE) ELSE NoUserRow] :
                  U \in {{}, {"u1"}}}
         ELSE {[u \in UserIds |-> NoUserRow]}
    /\ admins = {}
    /\ procs = [p \in Procs |-> NoProc]
    /\ store = [k \in Keys |-> Nil]
    /\ isConnected = FALSE
    /\ call = NoCall
    /\ last = NoRecord
    /\ hist = [k \in Keys |-> "none"]
    /\ WebIdle

RouteAuthenticate ==
    /\ At("authenticate")
    /\ Passed("authenticate", Authenticate(req))

RouteMultiAuth(dbFails, row) ==
    /\ At("multiAuth")
    /\ row \in FindFirstSession(req.xApiKey.value)
    /\ Passed("multiAuth", MultiAuth(req, dbFails, row))

RouteOptionalAuth ==
    /\ At("optionalAuth")
    /\ Passed("optionalAuth", OptionalAuth(req))

RouteAuthorizeType ==
    /\ At("authorizeType")
    /\ Passed("authorizeType", AuthorizeType(route.chain[route.pos].args, req))

RouteAuthorizeRole ==
    /\ At("authorizeRole")
    /\ Passed("authorizeRole", AuthorizeRole(route.chain[route.pos].args, req))

RouteAuthorizePermission(dbFails) ==
    /\ At("authorizePermission")
    /\ Passed("authorizePermission",
              AuthorizePermission(route.chain[route.pos].args, req, dbFails))

\* validateRequest(schema): next(), or 400 with the validation errors.
RouteValidateRequest(valid) ==
    /\ At("validateRequest")
    /\ Passed("validateRequest",
              IF valid THEN Continue(req.user, "none")
              ELSE [user |-> req.user, status |-> 400, message |-> "Validation failed",
                    next |-> FALSE, lookup |-> "none"])

\* The rest of the route answers the request.
RouteHandler ==
    /\ At("handler")
    /\ req' = [req EXCEPT !.mw = "handler", !.stage = "responded"]
    /\ res' = [res EXCEPT !.status = 200, !.message = "OK"]
    /\ route' = [route EXCEPT !.pos = @ + 1, !.by = "handler",
                              !.userBefore = req.user, !.next = FALSE,
                              !.handled = TRUE]
    /\ UNCHANGED <<cfgApiKey, sessions, now>>
    /\ UNCHANGED <<cacheVars, dbVars, procs, webVars>>

RouteNext ==
    \/ RouteAuthenticate
    \/ \E dbFails \in BOOLEAN, row \in SessionRows \cup {NoRow} :
          RouteMultiAuth(dbFails, row)
    \/ RouteOptionalAuth
    \/ RouteAuthorizeType
    \/ RouteAuthorizeRole
    \/ \E dbFails \in BOOLEAN : RouteAuthorizePermission(dbFails)
    \/ \E valid \in BOOLEAN : RouteValidateRequest(valid)
    \/ RouteHandler

SpecRoute == InitRoute /\ [][RouteNext]_vars

----------------------------------------------------------------------------
(* Properties of the authorization middleware and the routes *)

\* The middleware that ran last, its arguments and the principal it found.
RanLast(name) == route.by = name /\ route.pos > 1
ArgsOfLast == route.chain[route.pos - 1].args
Anonymous == route.userBefore = NoUser
Finished == req.stage = "responded"
TokenClaims == req.authorization.token.claims
DbUserOfPrincipal ==
    IF route.userBefore.id \in UserIds THEN users[route.userBefore.id] ELSE NoUserRow
DbPermissions ==
    IF roles[DbUserOfPrincipal.roleId].permissions.null THEN {}
    ELSE roles[DbUserOfPrincipal.roleId].permissions.array

\* C11: authorizeType, authorizeRole and authorizePermission answer 401
\* "Authentication required" and do not call next when the request has no
\* principal; authorizePermission then performs no lookup.
C11_NoPrincipalNoAuthorization ==
    (route.by \in {"authorizeType", "authorizeRole", "authorizePermission"}
        /\ Anonymous) =>
        /\ res.status = 401
        /\ res.message = "Authentication required"
        /\ ~route.next
        /\ route.lookup = "none"
        /\ req.stage = "responded"
        /\ ~route.handled

\* C11 witness: authorizePermission ran on a request without a principal and
\* answered 401.
C11_Witness ==
    /\ RanLast("authorizePermission")
    /\ Anonymous
    /\ res.status = 401

\* C12: on a route guarded by authenticate, authorizeType('admin') and
\* authorizeRole('SUPER_ADMIN'), the handler is invoked only for a verified
\* principal of type admin with role SUPER_ADMIN, such a principal passes
\* both guards, a principal failing either check is answered 403, and each
\* check decides on its own field of the principal alone.
C12_AdminAndSuperAdminChain ==
    /\ (RanLast("authorizeType") /\ ~Anonymous) =>
           (route.next <=> route.userBefore.type \in ArgsOfLast)
    /\ (RanLast("authorizeRole") /\ ~Anonymous) =>
           (route.next <=> route.userBefore.role \in ArgsOfLast)
    /\ route.name \in {"POST /api/admin/create", "POST /api/roles"} =>
        /\ route.handled =>
               /\ BearerValid
               /\ req.user.type = "admin"
               /\ req.user.role = "SUPER_ADMIN"
        /\ (Finished /\ BearerValid /\ TokenClaims.type # "admin") =>
               res.status = 403 /\ route.by = "authorizeType" /\ ~route.handled
        /\ (Finished /\ BearerValid /\ TokenClaims.type = "admin"
               /\ TokenClaims.role # "SUPER_ADMIN") =>
               res.status = 403 /\ route.by = "authorizeRole" /\ ~route.handled
        /\ (Finished /\ BearerValid /\ TokenClaims.type = "admin"
               /\ TokenClaims.role = "SUPER_ADMIN") =>
               \/ route.by = "handler" /\ route.handled /\ res.status = 200
               \/ route.by = "validateRequest" /\ res.status = 400

\* C12 witness: an admin whose role is not SUPER_ADMIN passed authorizeType
\* and was answered 403 by authorizeRole.
C12_Witness ==
    /\ route.name = "POST /api/admin/create"
    /\ BearerValid
    /\ TokenClaims.type = "admin"
    /\ TokenClaims.role # "SUPER_ADMIN"
    /\ RanLast("authorizeRole")
    /\ res.status = 403

\* C13: authorizePermission admits a principal with role "api" whatever the
\* permissions, answers 403 to a principal whose role lacks at least one
\* required permission even when it holds others, and lets a principal
\* whose role holds every required permission continue.
C13_PermissionAllOrNothing ==
    (RanLast("authorizePermission") /\ ~Anonymous) =>
        /\ route.userBefore.role = "api" => route.next /\ route.lookup = "none"
        /\ (route.userBefore.role # "api" /\ route.lookup = "done"
               /\ DbUserOfPrincipal # NoUserRow) =>
               IF ArgsOfLast \subseteq DbPermissions
               THEN route.next /\ res.status = 0
               ELSE ~route.next /\ res.status = 403
                       /\ res.message = "Insufficient permissions"

\* C13 witness: a principal holding one of two required permissions was
\* answered 403.
C13_Witness ==
    /\ RanLast("authorizePermission")
    /\ ~Anonymous
    /\ route.userBefore.role # "api"
    /\ route.lookup = "done"
    /\ DbUserOfPrincipal # NoUserRow
    /\ ArgsOfLast \cap DbPermissions # {}
    /\ ~(ArgsOfLast \subseteq DbPermissions)
    /\ res.status = 403

C20_StaticKeyAdmittedOnAdminRoutes ==
    (route.name \in {"GET /api/admin/profile", "GET /api/roles",
                     "GET /api/dashboard/stats"}
        /\ KeyIsStatic /\ ~req.authorization.present /\ Finished) =>
        /\ res.status = 200
        /\ req.user # NoUser
        /\ req.user.id = "system"
        /\ req.user.type = "admin"

----------------------------------------------------------------------------
(* services/role.service, services/user.service, services/admin.service:   *)
(* the write paths                                                         *)

\* The store generates the id of a new row; in the model the id generated for
\* a role name, or for an email, is fixed.
RoleNames == [i \in RoleIds |-> Digits[i]]
UserEmails == [u \in UserIds |-> u]

\* A step of a service method: a read of the store, a write to it, or a
\* cache invalidation.  Every step is awaited.
ReadStep(what) == [kind |-> "read", what |-> what]
WriteStep(what) == [kind |-> "write", what |-> what]
DeleteKey(prefix) == [kind |-> "delete", what |-> prefix]
DeletePatternStep(pattern) == [kind |-> "deletePattern", what |-> pattern]

WriteOps ==
    {"role.create", "role.update", "role.delete", "role.setDefault",
     "user.create", "user.update", "user.delete", "user.changeRole",
     "admin.create", "admin.update", "admin.delete", "admin.toggleUserStatus"}

\* The awaited steps of each method, in program order.
RoleServicePath(op) ==
    CASE op = "role.create" ->
           <<ReadStep("findFirst"), WriteStep("create"), DeletePatternStep("roles:*")>>
      [] op = "role.update" ->
           <<WriteStep("update"), DeleteKey("role:"), DeletePatternStep("roles:*")>>
      [] op = "role.delete" ->
           <<ReadStep("findUnique"), WriteStep("delete"), DeleteKey("role:"),
             DeletePatternStep("roles:*")>>
      [] op = "role.setDefault" ->
           <<WriteStep("updateMany"), WriteStep("update"),
             DeletePatternStep("roles:*")>>

\* In create, `await hashPassword` follows the reads.
UserServicePath(op) ==
    CASE op = "user.create" ->
           <<ReadStep("findUnique"), ReadStep("getDefaultRole"), WriteStep("create"),
             DeletePatternStep("users:*")>>
      [] op = "user.update" -> <<WriteStep("update"), DeleteKey("user:")>>
      [] op = "user.delete" ->
           <<WriteStep("delete"), DeleteKey("user:"), DeletePatternStep("users:*")>>
      [] op = "user.changeRole" ->
           <<ReadStep("getById"), WriteStep("update"), DeleteKey("user:")>>

AdminServicePath(op) ==
    CASE op = "admin.create" ->
           <<ReadStep("findUnique"), WriteStep("create"),
             DeletePatternStep("admins:*")>>
      [] op = "admin.update" -> <<WriteStep("update"), DeleteKey("admin:")>>
      [] op = "admin.delete" ->
           <<WriteStep("delete"), DeleteKey("admin:"), DeletePatternStep("admins:*")>>
      [] op = "admin.toggleUserStatus" ->
           <<ReadStep("findUnique"), WriteStep("update"), DeleteKey("user:")>>

RoleOps == {"role.create", "role.update", "role.delete", "role.setDefault"}
UserOps == {"user.create", "user.update", "user.delete", "user.changeRole"}

\* The write paths with RoleService.update invalidating before it updates.
WritePathInvalidatesFirst(op) ==
    IF op = "role.update"
    THEN <<DeleteKey("role:"), DeletePatternStep("roles:*"), WriteStep("update")>>
    ELSE IF op \in RoleOps THEN RoleServicePath(op)
    ELSE IF op \in UserOps THEN UserServicePath(op)
    ELSE AdminServicePath(op)

WritePath(op) ==
    IF op \in RoleOps THEN RoleServicePath(op)
    ELSE IF op \in UserOps THEN UserServicePath(op)
    ELSE AdminServicePath(op)

\* A call: the method, its arguments (the ids of the rows it is about and a
\* boolean of its data), the step it is at, what its reads returned, the
\* store writes and invalidations it has issued, and the status it ended
\* with (0 while it runs).
Call(op, roleId, userId, adminId, flag) ==
    [op |-> op, pc |-> "1", roleId |-> roleId, userId |-> userId,
     adminId |-> adminId, flag |-> flag, readRole |-> 0, readActive |-> FALSE,
     events |-> <<>>, status |-> 0]

\* The calls a request may make.  create is given the name (the email) whose
\* row gets the id; user.create with roleId 0 leaves the role to the default.
Calls ==
    {Call("role.create", i, "", "", f) : i \in RoleIds, f \in BOOLEAN}
        \cup {Call("role.update", i, "", "", f) : i \in RoleIds, f \in BOOLEAN}
        \cup {Call(op, i, "", "", FALSE) :
                op \in {"role.delete", "role.setDefault"}, i \in RoleIds}
        \cup {Call("user.create", i, u, "", FALSE) :
                i \in {0} \cup RoleIds, u \in UserIds}
        \cup {Call(op, 0, u, "", FALSE) :
                op \in {"user.update", "user.delete", "admin.toggleUserStatus"},
                u \in UserIds}
        \cup {Call("user.changeRole", i, u, "", FALSE) : i \in RoleIds, u \in UserIds}
        \cup {Call(op, 0, "", a, FALSE) :
                op \in {"admin.create", "admin.update", "admin.delete"},
                a \in AdminIds}

\* The calls that read or write the role table, or free a user id.
RoleCalls ==
    {c \in Calls :
        c.op \in RoleOps \cup {"user.create", "user.changeRole", "user.delete"}}

\* The calls that delete a row.
DeleteCalls == {c \in Calls : c.op \in {"role.delete", "user.delete", "admin.delete"}}

PcOf(c) == CHOOSE n \in 1..9 : Digits[n] = c.pc
StepOf(c) == WritePath(c.op)[PcOf(c)]
Running(c) == c.op # "none" /\ c.status = 0
IsAt(c, kind, what) ==
    Running(c) /\ StepOf(c).kind = kind /\ StepOf(c).what = what
Advance(c) ==
    IF PcOf(c) = Len(WritePath(c.op))
    THEN [c EXCEPT !.pc = "returned", !.status = 200]
    ELSE [c EXCEPT !.pc = Digits[PcOf(c) + 1]]
Throw(c, status) == [c EXCEPT !.pc = "threw", !.status = status]
Issued(c, kind, what, id) ==
    [c EXCEPT !.events = Append(@, [kind |-> kind, what |-> what, id |-> id])]

\* role._count.users
UsersOfRole(i) == {u \in UserIds : users[u] # NoUserRow /\ users[u].roleId = i}

\* The relation User.roleId -> Role.id as the store enforces it: a referenced
\* role cannot be deleted, and a user cannot reference a role that is absent.
DeleteRestricted(i) == UsersOfRole(i) # {}
ReferenceValid(i) == i \in RoleIds /\ roles[i] # NoRole

\* Unique columns: role name/slug, user email.
NameTaken(name) == \E i \in RoleIds : roles[i] # NoRole /\ roles[i].name = name
EmailTaken(email) == \E u \in UserIds : users[u] # NoUserRow /\ users[u].email = email


\* What a store step of a call leaves: the call, the tables and the cache.
Same(c) ==
    [call |-> c, roles |-> roles, users |-> users, admins |-> admins,
     store |-> store]
\* An error of the store (not an ApiError) leaves the method.
StoreError(c) == {Same(Throw(c, 500))}
Wrote(c, what, id) == Same(Advance(Issued(c, "write", what, id)))

\* RoleService.create
RoleCreate(c) ==
    IF StepOf(c).kind = "read"
    THEN {Same(IF NameTaken(RoleNames[c.roleId]) THEN Throw(c, 400) ELSE Advance(c))}
    ELSE IF NameTaken(RoleNames[c.roleId]) THEN StoreError(c)
    ELSE {[Wrote(c, "create", Digits[c.roleId]) EXCEPT
             !.roles = [roles EXCEPT ![c.roleId] =
                          RoleRow(RoleNames[c.roleId], c.flag, TRUE, NullPermissions)]]}

\* RoleService.update, with data { isActive }
RoleUpdate(c) ==
    IF roles[c.roleId] = NoRole THEN StoreError(c)
    ELSE {[Wrote(c, "update", Digits[c.roleId]) EXCEPT
             !.roles = [roles EXCEPT ![c.roleId].isActive = c.flag]]}

\* RoleService.delete without the check of role._count.users.
RoleDeleteUnchecked(c) ==
    IF StepOf(c).kind = "read"
    THEN {Same(IF roles[c.roleId] = NoRole THEN Throw(c, 404) ELSE Advance(c))}
    ELSE IF roles[c.roleId] = NoRole \/ DeleteRestricted(c.roleId) THEN StoreError(c)
    ELSE {[Wrote(c, "delete", Digits[c.roleId]) EXCEPT
             !.roles = [roles EXCEPT ![c.roleId] = NoRole]]}

\* RoleService.delete
RoleDelete(c) ==
    IF StepOf(c).kind = "read"
    THEN {Same(IF roles[c.roleId] = NoRole THEN Throw(c, 404)
               ELSE IF Cardinality(UsersOfRole(c.roleId)) > 0 THEN Throw(c, 400)
               ELSE Advance(c))}
    ELSE IF roles[c.roleId] = NoRole \/ DeleteRestricted(c.roleId) THEN StoreError(c)
    ELSE {[Wrote(c, "delete", Digits[c.roleId]) EXCEPT
             !.roles = [roles EXCEPT ![c.roleId] = NoRole]]}

\* RoleService.setDefault
RoleSetDefault(c) ==
    IF StepOf(c).what = "updateMany"
    THEN {[Wrote(c, "updateMany", "") EXCEPT
             !.roles = [i \in RoleIds |-> [roles[i] EXCEPT !.isDefault = FALSE]]]}
    ELSE IF roles[c.roleId] = NoRole THEN StoreError(c)
    ELSE {[Wrote(c, "update", Digits[c.roleId]) EXCEPT
             !.roles = [roles EXCEPT ![c.roleId].isDefault = TRUE]]}

\* RoleService.getDefaultRole: findFirst({ isDefault: true, isActive: true }),
\* any of the matching rows; 0 for null.
GetDefaultRole ==
    LET found == {i \in RoleIds :
                     roles[i] # NoRole /\ roles[i].isDefault /\ roles[i].isActive}
    IN IF found = {} THEN {0} ELSE found

\* UserService.create that takes any default role, active or not.
UserCreateIgnoresIsActive(c) ==
    LET found == {i \in RoleIds : roles[i] # NoRole /\ roles[i].isDefault}
    IN
    IF StepOf(c).what = "findUnique"
    THEN {Same(IF EmailTaken(UserEmails[c.userId]) THEN Throw(c, 400) ELSE Advance(c))}
    ELSE IF StepOf(c).what = "getDefaultRole"
    THEN IF c.roleId # 0 THEN {Same(Advance([c EXCEPT !.readRole = c.roleId]))}
         ELSE IF found = {} THEN {Same(Throw(c, 400))}
         ELSE {Same(Advance([c EXCEPT !.readRole = i])) : i \in found}
    ELSE IF EmailTaken(UserEmails[c.userId]) \/ ~ReferenceValid(c.readRole)
         THEN StoreError(c)
         ELSE {[Wrote(c, "create", c.userId) EXCEPT
                  !.users = [users EXCEPT ![c.userId] =
                               UserRow(UserEmails[c.userId], c.readRole, TRUE)]]}

\* UserService.create
UserCreate(c) ==
    IF StepOf(c).what = "findUnique"
    THEN {Same(IF EmailTaken(UserEmails[c.userId]) THEN Throw(c, 400) ELSE Advance(c))}
    ELSE IF StepOf(c).what = "getDefaultRole"
    THEN IF c.roleId # 0 THEN {Same(Advance([c EXCEPT !.readRole = c.roleId]))}
         ELSE {Same(IF i = 0 THEN Throw(c, 400)
                    ELSE Advance([c EXCEPT !.readRole = i])) : i \in GetDefaultRole}
    ELSE IF EmailTaken(UserEmails[c.userId]) \/ ~ReferenceValid(c.readRole)
         THEN StoreError(c)
         ELSE {[Wrote(c, "create", c.userId) EXCEPT
                  !.users = [users EXCEPT ![c.userId] =
                               UserRow(UserEmails[c.userId], c.readRole, TRUE)]]}

\* UserService.update (the data holds none of the columns of the model)
UserUpdate(c) ==
    IF users[c.userId] = NoUserRow THEN StoreError(c)
    ELSE {Wrote(c, "update", c.userId)}

\* UserService.delete
UserDelete(c) ==
    IF users[c.userId] = NoUserRow THEN StoreError(c)
    ELSE {[Wrote(c, "delete", c.userId) EXCEPT
             !.users = [users EXCEPT ![c.userId] = NoUserRow]]}

\* UserService.changeRole.  roleService.getById answers from the cache when
\* it can, else from the store, caching what it found.
UserChangeRole(c) ==
    LET tracked == c.roleId \in 1..NumIds
        cached == IF tracked THEN CacheGet(RoleKey(c.roleId), "none").value
                  ELSE JsNull
    IN
    IF StepOf(c).kind = "read"
    THEN IF GetOrSetHit(cached) THEN {Same(Advance(c))}
         ELSE IF roles[c.roleId] = NoRole THEN {Same(Throw(c, 404))}
         ELSE {[Same(Advance(c)) EXCEPT
                  !.store = IF tracked
                            THEN CacheSet(RoleKey(c.roleId), JsObj(1, "Date"),
                                          "none").store
                            ELSE store]}
    ELSE IF users[c.userId] = NoUserRow \/ ~ReferenceValid(c.roleId)
         THEN StoreError(c)
         ELSE {[Wrote(c, "update", c.userId) EXCEPT
                  !.users = [users EXCEPT ![c.userId].roleId = c.roleId]]}

\* AdminService.create
AdminCreate(c) ==
    IF StepOf(c).kind = "read"
    THEN {Same(IF c.adminId \in admins THEN Throw(c, 400) ELSE Advance(c))}
    ELSE IF c.adminId \in admins THEN StoreError(c)
    ELSE {[Wrote(c, "create", c.adminId) EXCEPT !.admins = admins \cup {c.adminId}]}

\* AdminService.update
AdminUpdate(c) ==
    IF c.adminId \notin admins THEN StoreError(c)
    ELSE {Wrote(c, "update", c.adminId)}

\* AdminService.delete
AdminDelete(c) ==
    IF c.adminId \notin admins THEN StoreError(c)
    ELSE {[Wrote(c, "delete", c.adminId) EXCEPT !.admins = admins \ {c.adminId}]}

\* AdminService.toggleUserStatus
AdminToggleUserStatus(c) ==
    IF StepOf(c).kind = "read"
    THEN {Same(IF users[c.userId] = NoUserRow THEN Throw(c, 404)
               ELSE Advance([c EXCEPT !.readActive = users[c.userId].isActive]))}
    ELSE IF users[c.userId] = NoUserRow THEN StoreError(c)
    ELSE {[Wrote(c, "update", c.userId) EXCEPT
             !.users = [users EXCEPT ![c.userId].isActive = ~c.readActive]]}

\* The store step a call is at.
ServiceStep(c) ==
    CASE c.op = "role.create" -> RoleCreate(c)
      [] c.op = "role.update" -> RoleUpdate(c)
      [] c.op = "role.delete" -> RoleDelete(c)
      [] c.op = "role.setDefault" -> RoleSetDefault(c)
      [] c.op = "user.create" -> UserCreate(c)
      [] c.op = "user.update" -> UserUpdate(c)
      [] c.op = "user.delete" -> UserDelete(c)
      [] c.op = "user.changeRole" -> UserChangeRole(c)
      [] c.op = "admin.create" -> AdminCreate(c)
      [] c.op = "admin.update" -> AdminUpdate(c)
      [] c.op = "admin.delete" -> AdminDelete(c)
      [] c.op = "admin.toggleUserStatus" -> AdminToggleUserStatus(c)

\* The id in the key `<prefix><id>` a call deletes.
KeyId(c) ==
    IF StepOf(c).what = "role:" THEN Digits[c.roleId]
    ELSE IF StepOf(c).what = "admin:" THEN c.adminId
    ELSE c.userId

----------------------------------------------------------------------------
(* Requests calling the services *)

InitStore ==
    /\ roles = [i \in RoleIds |-> NoRole]
    /\ users = [u \in UserIds |-> NoUserRow]
    /\ admins = {}
    /\ procs = [p \in Procs |-> NoProc]
    /\ store = [k \in Keys |-> Nil]
    /\ isConnected = TRUE
    /\ call = NoCall
    /\ last = NoRecord
    /\ hist = [k \in Keys |-> "none"]
    /\ cfgApiKey = ""
    /\ sessions = {}
    /\ now = 0
    /\ req = NoRequest
    /\ res = NoResponse
    /\ route = NoRoute
    /\ WebIdle

\* No call has just returned or thrown.  A call that has is handed to its
\* controller before anything else runs.
NoneEnded == \A p \in Procs : procs[p].status = 0

\* A controller calls a service method.
Begin(p, c) ==
    /\ NoneEnded
    /\ procs[p] = NoProc
    /\ procs' = [procs EXCEPT ![p] = c]
    /\ UNCHANGED <<cacheVars, authVars, route, dbVars, webVars>>

\* An awaited read of the store resolves.
ServiceRead(p) ==
    /\ NoneEnded
    /\ Running(procs[p])
    /\ StepOf(procs[p]).kind = "read"
    /\ \E r \in ServiceStep(procs[p]) :
          /\ procs' = [procs EXCEPT ![p] = r.call]
          /\ store' = r.store
    /\ UNCHANGED <<isConnected, call, last, hist, authVars, route, dbVars, webVars>>

\* An awaited write to the store resolves or rejects.
ServiceWrite(p) ==
    /\ NoneEnded
    /\ Running(procs[p])
    /\ StepOf(procs[p]).kind = "write"
    /\ \E r \in ServiceStep(procs[p]) :
          /\ procs' = [procs EXCEPT ![p] = r.call]
          /\ roles' = r.roles
          /\ users' = r.users
          /\ admins' = r.admins
    /\ UNCHANGED <<cacheVars, authVars, route, webVars>>

\* await cacheService.delete(`<prefix><id>`)
InvalidateKey(p, fault) ==
    LET c == procs[p]
    IN /\ NoneEnded
       /\ Running(c)
       /\ StepOf(c).kind = "delete"
       /\ procs' = [procs EXCEPT ![p] =
                      Advance(Issued(c, "delete", StepOf(c).what, KeyId(c)))]
       /\ store' = IF StepOf(c).what = "role:" /\ c.roleId \in 1..NumIds
                   THEN CacheDelete(RoleKey(c.roleId), fault).store
                   ELSE store
       /\ UNCHANGED <<isConnected, call, last, hist, authVars, route, dbVars, webVars>>

\* await cacheService.deletePattern(pattern)
InvalidatePattern(p, fault, D) ==
    LET c == procs[p]
    IN /\ NoneEnded
       /\ Running(c)
       /\ StepOf(c).kind = "deletePattern"
       /\ procs' = [procs EXCEPT ![p] =
                      Advance(Issued(c, "deletePattern", StepOf(c).what, ""))]
       /\ store' = IF StepOf(c).what = "roles:*"
                   THEN CacheDeletePattern(RolesPrefix \o <<"*">>, fault, D).store
                   ELSE store
       /\ UNCHANGED <<isConnected, call, last, hist, authVars, route, dbVars, webVars>>

\* The method has returned or thrown; the controller answers the request.
Return(p) ==
    /\ procs[p].status # 0
    /\ procs' = [procs EXCEPT ![p] = NoProc]
    /\ UNCHANGED <<cacheVars, authVars, route, dbVars, webVars>>

\* The steps of the calls in flight.
Step ==
    \/ \E p \in Procs : ServiceRead(p)
    \/ \E p \in Procs : ServiceWrite(p)
    \/ \E p \in Procs, fault \in FaultKinds : InvalidateKey(p, fault)
    \/ \E p \in Procs, fault \in FaultKinds,
          D \in SUBSET RedisKeys(RolesPrefix \o <<"*">>) :
          InvalidatePattern(p, fault, D)
    \/ \E p \in Procs : Return(p)

\* Two requests at a time, each calling a method that reads or writes the
\* role table.
RolesNext ==
    \/ \E p \in Procs, c \in RoleCalls : Begin(p, c)
    \/ Step

SpecRoles == InitStore /\ [][RolesNext]_vars

\* A request calling any write path, beside a request that deletes rows.
WritesNext ==
    \/ \E c \in Calls : Begin("t1", c)
    \/ \E c \in DeleteCalls : Begin("t2", c)
    \/ Step

SpecWrites == InitStore /\ [][WritesNext]_vars

----------------------------------------------------------------------------
(* Properties of the services *)

DefaultRoles == {i \in RoleIds : roles[i] # NoRole /\ roles[i].isDefault}
ActiveDefaultRoles == {i \in DefaultRoles : roles[i].isActive}
Invalidations(c) ==
    {n \in 1..Len(c.events) : c.events[n].kind \in {"delete", "deletePattern"}}
Writes(c) == {n \in 1..Len(c.events) : c.events[n].kind = "write"}

\* C15: when roleService.setDefault(roleId) returns successfully, exactly one
\* role has isDefault = true, and it is roleId.
C15_SetDefaultLeavesOneDefault ==
    \A p \in Procs :
        (procs[p].op = "role.setDefault" /\ procs[p].status = 200) =>
            DefaultRoles = {procs[p].roleId}

\* C16: in every reachable state of the role table at most one role has
\* isDefault = true.
C16_AtMostOneDefault == Cardinality(DefaultRoles) <= 1

\* C17: the store never holds a user whose role is absent; a
\* roleService.delete(id) whose lookup finds the role referenced by a user
\* throws 400, leaves the role in the store and issues no invalidation.
C17_Integrity ==
    \A u \in UserIds : users[u] # NoUserRow => roles[users[u].roleId] # NoRole
C17_Rejects ==
    \A p \in Procs :
        (procs[p].op = "role.delete" /\ IsAt(procs[p], "read", "findUnique")
            /\ procs'[p] # procs[p] /\ roles[procs[p].roleId] # NoRole
            /\ UsersOfRole(procs[p].roleId) # {}) =>
            /\ procs'[p].status = 400
            /\ procs'[p].events = <<>>
            /\ roles' = roles
            /\ store' = store
C18_Step ==
    \A p \in Procs :
        LET c == procs[p]
            d == procs'[p]
        IN (c.op = "user.create" /\ Running(c) /\ d # c) =>
            /\ (IsAt(c, "read", "findUnique") /\ users[c.userId] # NoUserRow) =>
                   d.status = 400 /\ users' = users
            /\ (IsAt(c, "read", "getDefaultRole") /\ c.roleId = 0) =>
                   IF ActiveDefaultRoles = {}
                   THEN d.status = 400 /\ users' = users
                   ELSE d.status = 0 /\ d.readRole \in ActiveDefaultRoles
            /\ (IsAt(c, "write", "create") /\ d.status = 0) =>
                   /\ users[c.userId] = NoUserRow
                   /\ users'[c.userId].roleId = c.readRole
            /\ d.status = 400 => d.events = <<>>
C18_CreateAssignsActiveDefault == [][C18_Step]_vars

\* C18 witness: a registration without roleId returned with the user created
\* in the role that is the active default.
C18_Witness ==
    \E p \in Procs :
        /\ procs[p].op = "user.create"
        /\ procs[p].roleId = 0
        /\ procs[p].status = 200
        /\ users[procs[p].userId] # NoUserRow
        /\ users[procs[p].userId].roleId \in ActiveDefaultRoles

\* C19: on every write path no invalidation is issued before the store
\* writes of the method have completed, the key of the entity is deleted
\* before any collection pattern, and a method whose write fails issues no
\* invalidation.
C19_MutateThenInvalidate ==
    \A p \in Procs :
        LET c == procs[p]
        IN /\ \A n \in Invalidations(c) :
                  /\ \E m \in Writes(c) : m < n
                  /\ \A m \in Writes(c) : m < n
           /\ \A n, m \in Invalidations(c) :
                  (c.events[n].kind = "deletePattern" /\ c.events[m].kind = "delete")
                      => m < n
           /\ c.status \notin {0, 200} => Invalidations(c) = {}
           /\ c.status = 200 => Writes(c) # {} /\ Invalidations(c) # {}

\* C19 witness: setDefault cleared the defaults, its update of the role then
\* failed, and it threw without having issued an invalidation.
C19_Witness ==
    \E p \in Procs :
        /\ procs[p].op = "role.setDefault"
        /\ procs[p].status = 500
        /\ Writes(procs[p]) # {}
        /\ Invalidations(procs[p]) = {}

----------------------------------------------------------------------------
(* middleware/cache.middleware: cacheMiddleware, and the controllers of the *)
(* GET routes mounted behind it                                             *)

\* `cache:${req.originalUrl}`, character by character
CachePrefix == <<"c", "a", "c", "h", "e", ":">>
UrlText ==
    [u \in PageUrls |->
        CASE u = RoleUrl ->
               <<"/", "a", "p", "i", "/", "r", "o", "l", "e", "s", "/", "1">>
          [] u = ProfileUrl ->
               <<"/", "a", "p", "i", "/", "a", "d", "m", "i", "n", "/",
                 "p", "r", "o", "f", "i", "l", "e">>
          [] u = StatsUrl ->
               <<"/", "a", "p", "i", "/", "d", "a", "s", "h", "b", "o", "a", "r", "d",
                 "/", "s", "t", "a", "t", "s">>]
PageKey(u) == CachePrefix \o UrlText[u]

\* The admins that reach the routes: all three are mounted behind
\* authenticate and authorizeType('admin').
AdminPrincipals == {c.id : c \in {d \in Claims : d.type = "admin"}}

\* What a service returns: a row with its Date columns, or computed figures.
RoleJs(i) ==
    [t |-> "object", id |-> i, date |-> "Date",
     data |-> [isActive |-> roles[i].isActive]]
AdminJs(a) == [t |-> "object", id |-> 0, date |-> "Date", data |-> [admin |-> a]]
StatsJs ==
    [t |-> "object", id |-> 0, date |-> "none",
     data |-> [totalRoles |-> Cardinality({i \in RoleIds : roles[i] # NoRole}),
               totalAdmins |-> Cardinality(admins)]]

\* sendSuccess: { success: true, message, data }, and the error handler's
\* { success: false, message } for an ApiError.
SendSuccess(data) ==
    [t |-> "object", id |-> data.id, date |-> data.date,
     data |-> [success |-> TRUE, data |-> data.data]]
SendError(status) ==
    [t |-> "object", id |-> 0, date |-> "none",
     data |-> [success |-> FALSE, statusCode |-> status]]

\* What a controller's service call gives: the status, the data, whether the
\* producer (the fetcher passed to getOrSet) ran, and the keyspace it leaves.
Served(status, data, produced, st) ==
    [status |-> status, data |-> data, produced |-> produced, store |-> st]

\* roleController.getRoleById: roleService.getById(1)
GetRoleById ==
    LET cached == CacheGet(RoleKey(1), "none").value
    IN IF GetOrSetHit(cached) THEN Served(200, cached, FALSE, store)
       ELSE IF roles[1] = NoRole THEN Served(404, JsUndefined, TRUE, store)
       ELSE Served(200, RoleJs(1), TRUE, CacheSet(RoleKey(1), RoleJs(1), "none").store)

\* adminController.getProfile: adminService.getById(req.user.id)
GetProfile(user) ==
    IF user \in admins THEN Served(200, AdminJs(user), TRUE, store)
    ELSE Served(404, JsUndefined, TRUE, store)

\* dashboardController.getStats: dashboardService.getStats()
GetStats == Served(200, StatsJs, TRUE, store)

ControllerOf(r) ==
    CASE r.url = RoleUrl -> GetRoleById
      [] r.url = ProfileUrl -> GetProfile(r.user)
      [] r.url = StatsUrl -> GetStats

\* cacheMiddleware that never answers from the cache.
CacheMiddlewareNeverHits(r, fault) ==
    IF ~IsReady THEN [r EXCEPT !.pc = "controller"]
    ELSE IF Raised(fault) THEN [r EXCEPT !.pc = "controller", !.raised = TRUE]
    ELSE [r EXCEPT !.pc = "controller", !.wrapped = TRUE]

\* cacheMiddleware for a GET request: not ready, or redis.get rejecting, pass
\* the request on untouched; a cached response is sent with status 200;
\* else res.json is wrapped and the request passed on.
CacheMiddleware(r, fault) ==
    IF ~IsReady THEN [r EXCEPT !.pc = "controller"]
    ELSE IF Raised(fault) THEN [r EXCEPT !.pc = "controller", !.raised = TRUE]
    ELSE IF pages[r.url] # Nil
         THEN [r EXCEPT !.pc = "responded", !.status = 200,
                        !.body = JSONstringify(JSONparse(pages[r.url]))]
         ELSE [r EXCEPT !.pc = "controller", !.wrapped = TRUE]

\* The wrapped res.json: a 2xx body is handed to redis.set (not awaited, its
\* rejection logged); the keyspace it leaves.
WrappedJson(r, text, fault) ==
    IF r.wrapped /\ r.status >= 200 /\ r.status < 300 /\ Applied(fault)
    THEN [pages EXCEPT ![r.url] = text]
    ELSE pages

\* The route the requests are made on, the admin table and whether the cache
\* is connected are inputs.
InitPages ==
    /\ pages = [u \in PageUrls |-> Nil]
    /\ http = [p \in Procs |-> NoHttp]
    /\ answer = [u \in PageUrls |-> NoAnswer]
    /\ server = NoServer
    /\ jwt = NoJwt
    /\ sock = NoSock
    /\ isConnected \in BOOLEAN
    /\ admins \in {{"a1"}, AdminPrincipals}
    /\ roles = [i \in RoleIds |->
                  IF i = 1 THEN RoleRow("editor", TRUE, TRUE, NullPermissions)
                  ELSE NoRole]
    /\ users = [u \in UserIds |-> NoUserRow]
    /\ procs = [p \in Procs |-> NoProc]
    /\ store = [k \in Keys |-> Nil]
    /\ call = NoCall
    /\ last = NoRecord
    /\ hist = [k \in Keys |-> "none"]
    /\ cfgApiKey = ""
    /\ sessions = {}
    /\ now = 0
    /\ req = NoRequest
    /\ res = NoResponse
    /\ route \in {Route(u, <<Mw("cacheMiddleware", {})>>) : u \in PageUrls}

pageOther == <<call, last, hist, authVars, route, users, procs, server, jwt, sock>>

\* A GET request arrives, passes the guards and reaches cacheMiddleware,
\* whose redis.get resolves or rejects.
PageRequest(p, url, user, fault) ==
    LET r == [HttpRequest(url, user) EXCEPT
                !.prior = answer[url],
                !.alone = \A q \in Procs : http[q] = NoHttp]
        m == CacheMiddleware(r, fault)
    IN /\ http[p] = NoHttp
       /\ url = route.name
       /\ \A q \in Procs : http[q].pc # "responded"
       /\ http' = [q \in Procs |->
                     IF q = p THEN m
                     ELSE IF http[q] = NoHttp THEN NoHttp
                     ELSE [http[q] EXCEPT !.alone = FALSE]]
       /\ answer' = IF m.pc = "responded"
                    THEN [answer EXCEPT ![url] =
                            Answer(m.body, TRUE, answer[url].updated)]
                    ELSE answer
       /\ UNCHANGED <<pages, store, isConnected, roles, admins, pageOther>>

\* The controller's service call resolves.
PageController(p) ==
    LET r == http[p]
        o == ControllerOf(r)
    IN /\ r.pc = "controller"
       /\ \A q \in Procs : http[q].pc # "responded"
       /\ http' = [http EXCEPT ![p] =
                     [r EXCEPT !.pc = "json", !.invoked = TRUE,
                               !.produced = o.produced, !.status = o.status,
                               !.data = o.data]]
       /\ store' = o.store
       /\ UNCHANGED <<pages, answer, isConnected, roles, admins, pageOther>>

\* The controller (or the error handler) calls res.json.
ResJson(p, fault) ==
    LET r == http[p]
        text == JSONstringify(IF r.status = 200 THEN SendSuccess(r.data)
                              ELSE SendError(r.status))
    IN /\ r.pc = "json"
       /\ \A q \in Procs : http[q].pc # "responded"
       /\ http' = [http EXCEPT ![p] = [r EXCEPT !.pc = "responded", !.body = text]]
       /\ pages' = WrappedJson(r, text, fault)
       /\ answer' = IF r.status = 200
                    THEN [answer EXCEPT ![r.url] =
                            Answer(text, WrappedJson(r, text, fault)[r.url] = text,
                                   FALSE)]
                    ELSE answer
       /\ UNCHANGED <<store, isConnected, roles, admins, pageOther>>

\* The response has left; the task is free again.
PageDone(p) ==
    /\ http[p].pc = "responded"
    /\ http' = [http EXCEPT ![p] = NoHttp]
    /\ UNCHANGED <<pages, answer, store, isConnected, roles, admins, pageOther>>

\* The TTL given to setEx runs out.
PageExpire(url) ==
    /\ \A q \in Procs : http[q].pc # "responded"
    /\ pages[url] # Nil \/ answer[url] # NoAnswer
    /\ pages' = [pages EXCEPT ![url] = Nil]
    /\ answer' = [answer EXCEPT ![url] = NoAnswer]
    /\ UNCHANGED <<http, store, isConnected, roles, admins, pageOther>>

\* PUT /api/roles/1 with { isActive }: roleService.update mutates, then
\* deletes `role:1` and the keys matching `roles:*`; the controller answers.
PutRole(flag) ==
    LET gone == {u \in PageUrls :
                    \/ PageKey(u) = RoleKey(1)
                    \/ GlobMatch(RolesPrefix \o <<"*">>, PageKey(u))}
        afterDelete == CacheDelete(RoleKey(1), "none").store
    IN /\ \A q \in Procs : http[q].pc # "responded"
       /\ roles[1].isActive # flag
       /\ roles' = [roles EXCEPT ![1].isActive = flag]
       /\ store' = IF IsReady
                   THEN [k \in Keys |->
                           IF GlobMatch(RolesPrefix \o <<"*">>, k) THEN Nil
                           ELSE afterDelete[k]]
                   ELSE store
       /\ pages' = IF IsReady
                   THEN [u \in PageUrls |-> IF u \in gone THEN Nil ELSE pages[u]]
                   ELSE pages
       /\ answer' = [u \in PageUrls |->
                       IF u = RoleUrl /\ answer[u] # NoAnswer
                       THEN [answer[u] EXCEPT !.updated = TRUE]
                       ELSE answer[u]]
       /\ http' = [q \in Procs |->
                     IF http[q] = NoHttp THEN NoHttp
                     ELSE [http[q] EXCEPT !.alone = FALSE]]
       /\ UNCHANGED <<isConnected, admins, pageOther>>

PagesNext ==
    \/ \E p \in Procs, url \in PageUrls, user \in AdminPrincipals,
          fault \in {"none", "rejected"} : PageRequest(p, url, user, fault)
    \/ \E p \in Procs : PageController(p)
    \/ \E p \in Procs, fault \in FaultKinds : ResJson(p, fault)
    \/ \E p \in Procs : PageDone(p)
    \/ \E url \in PageUrls : PageExpire(url)
    \/ \E flag \in BOOLEAN : PutRole(flag)

SpecPages == InitPages /\ [][PagesNext]_vars

----------------------------------------------------------------------------
(* Properties of the response cache (checked under SpecPages) *)

\* The data of the entity a response body shows.
ShownBy(text) == JSONparse(text).data.data

\* C21: with the cache ready, a request to a url for which a 2xx answer was
\* sent before it arrived (within the TTL) is answered with the same body,
\* and neither the controller nor the producer runs for it.
C21_SecondRequestServedFromCache ==
    \A p \in Procs :
        LET r == http[p]
        IN (r.pc = "responded" /\ IsReady /\ r.prior.text # Nil)
               => (r.body = r.prior.text /\ ~r.invoked /\ ~r.produced)

\* C21 (amended): the same, when the store took the redis.set of the earlier
\* answer and does not reject the redis.get of this request.
C21_StoredAnswerServedFromCache ==
    \A p \in Procs :
        LET r == http[p]
        IN (r.pc = "responded" /\ IsReady /\ r.prior.text # Nil
                /\ r.prior.stored /\ ~r.raised)
               => (r.body = r.prior.text /\ ~r.invoked /\ ~r.produced)

\* C21 witness: a second request for the dashboard statistics answered from
\* the cache with the body of the first answer.
C21_Witness ==
    \E p \in Procs :
        LET r == http[p]
        IN /\ r.pc = "responded" /\ r.url = StatsUrl /\ IsReady
           /\ r.prior.text # Nil /\ r.prior.stored /\ ~r.raised
           /\ r.body = r.prior.text /\ ~r.invoked

\* C25: with the cache ready and no other request beside it, a GET
\* /api/roles/1 that follows a completed update of the role, and that had
\* been answered before the update, returns the role as updated.
C25_GetAfterPutReturnsUpdatedRole ==
    \A p \in Procs :
        LET r == http[p]
        IN (r.pc = "responded" /\ r.url = RoleUrl /\ r.status = 200 /\ IsReady
                /\ r.alone /\ r.prior.updated)
               => ShownBy(r.body).isActive = roles[1].isActive

\* C26: the body GET /api/admin/profile returns to an admin is the profile
\* of that admin.
C26_ProfileOfTheRequester ==
    \A p \in Procs :
        LET r == http[p]
        IN (r.pc = "responded" /\ r.url = ProfileUrl /\ r.status = 200)
               => ShownBy(r.body).admin = r.user

----------------------------------------------------------------------------
(* server.ts: startServer and shutdown *)

serverOther ==
    <<store, call, last, hist, authVars, route, dbVars, procs, pages, http, answer,
      jwt, sock>>

\* Whether the database and the Redis server can be reached, and what the
\* Redis client does with a connection that fails, are inputs.
InitServer ==
    /\ server \in {[NoServer EXCEPT !.dbUp = d, !.redisUp = u, !.retry = r] :
                      d \in BOOLEAN, u \in BOOLEAN, r \in BOOLEAN}
    /\ isConnected = FALSE
    /\ pages = [u \in PageUrls |-> Nil]
    /\ http = [p \in Procs |-> NoHttp]
    /\ answer = [u \in PageUrls |-> NoAnswer]
    /\ jwt = NoJwt
    /\ sock = NoSock
    /\ admins = {}
    /\ roles = [i \in RoleIds |-> NoRole]
    /\ users = [u \in UserIds |-> NoUserRow]
    /\ procs = [p \in Procs |-> NoProc]
    /\ store = [k \in Keys |-> Nil]
    /\ call = NoCall
    /\ last = NoRecord
    /\ hist = [k \in Keys |-> "none"]
    /\ cfgApiKey = ""
    /\ sessions = {}
    /\ now = 0
    /\ req = NoRequest
    /\ res = NoResponse
    /\ route = NoRoute

Exited(code) == [server EXCEPT !.phase = "exited", !.exitCode = code,
                               !.accepting = FALSE,
                               !.aborted = \E p \in Procs : server.inflight[p] # "none"]

\* startServer() is called: await prisma.$connect()
StartServer ==
    /\ server.phase = "off"
    /\ server' = [server EXCEPT !.phase = "prisma.$connect"]
    /\ UNCHANGED <<isConnected, serverOther>>

\* prisma.$connect() resolves, and redis.connect() is awaited; or it rejects:
\* catch, process.exit(1).
PrismaConnect ==
    /\ server.phase = "prisma.$connect"
    /\ server' = IF server.dbUp
                 THEN [server EXCEPT !.phase = "redis.connect", !.prisma = "open",
                                     !.redis = "connecting"]
                 ELSE [Exited(1) EXCEPT !.failed = "prisma"]
    /\ UNCHANGED <<isConnected, serverOther>>

\* The Redis server becomes reachable.
RedisComesUp ==
    /\ server.phase # "exited"
    /\ ~server.redisUp
    /\ server' = [server EXCEPT !.redisUp = TRUE]
    /\ UNCHANGED <<isConnected, serverOther>>

\* redis.connect() -> client.connect() with the server reachable: 'connect'
\* is emitted, the promise resolves, httpServer.listen is called.
RedisConnectResolves ==
    /\ server.phase = "redis.connect"
    /\ server.redisUp
    /\ isConnected' = TRUE
    /\ server' = [server EXCEPT !.phase = "listening", !.redis = "open",
                                !.accepting = TRUE]
    /\ UNCHANGED serverOther

\* client.connect() with the server unreachable and the client giving up:
\* the promise rejects, startServer's catch calls process.exit(1).  While
\* the client keeps retrying instead, the promise stays pending and
\* startServer stays at the await.
RedisConnectRejects ==
    /\ server.phase = "redis.connect"
    /\ ~server.redisUp
    /\ ~server.retry
    /\ server' = [Exited(1) EXCEPT !.failed = "redis", !.redis = "closed"]
    /\ UNCHANGED <<isConnected, serverOther>>

\* A request is accepted; its handler awaits a query.
Arrive(p) ==
    /\ server.accepting
    /\ server.inflight[p] = "none"
    /\ server' = [server EXCEPT !.inflight[p] = "query"]
    /\ UNCHANGED <<isConnected, serverOther>>

\* The handler's prisma query is issued; a cache command follows.
RequestQuery(p) ==
    /\ server.phase # "exited"
    /\ server.inflight[p] = "query"
    /\ server' = [server EXCEPT !.inflight[p] = "cache",
                                !.sawClosed = @ \/ server.prisma = "closed"]
    /\ UNCHANGED <<isConnected, serverOther>>

\* The handler's cache command is issued (when isReady()); the response
\* follows.
RequestCache(p) ==
    /\ server.phase # "exited"
    /\ server.inflight[p] = "cache"
    /\ server' = [server EXCEPT !.inflight[p] = "respond",
                                !.sawClosed = @ \/ (IsReady /\ server.redis = "closed")]
    /\ UNCHANGED <<isConnected, serverOther>>

\* The response is sent.
RequestRespond(p) ==
    /\ server.phase # "exited"
    /\ server.inflight[p] = "respond"
    /\ server' = [server EXCEPT !.inflight[p] = "none"]
    /\ UNCHANGED <<isConnected, serverOther>>

\* SIGTERM or SIGINT: shutdown calls httpServer.close(callback), which stops
\* accepting, and goes on to await prisma.$disconnect().
Shutdown ==
    /\ server.phase = "listening"
    /\ server' = [server EXCEPT !.phase = "prisma.$disconnect", !.accepting = FALSE]
    /\ UNCHANGED <<isConnected, serverOther>>

\* prisma.$disconnect() resolves; redis.disconnect() is awaited when
\* isConnected, else process.exit(0) follows at once.
PrismaDisconnected ==
    /\ server.phase = "prisma.$disconnect"
    /\ server' = IF isConnected
                 THEN [server EXCEPT !.phase = "redis.disconnect", !.prisma = "closed"]
                 ELSE [Exited(0) EXCEPT !.prisma = "closed"]
    /\ UNCHANGED <<isConnected, serverOther>>

\* client.disconnect() resolves; process.exit(0).
RedisDisconnected ==
    /\ server.phase = "redis.disconnect"
    /\ server' = [Exited(0) EXCEPT !.redis = "closed"]
    /\ UNCHANGED <<isConnected, serverOther>>

\* client.on('error') while the process runs
ServerRedisError ==
    /\ server.phase \in {"listening", "prisma.$disconnect"}
    /\ isConnected
    /\ isConnected' = FALSE
    /\ UNCHANGED <<server, serverOther>>

ServerNext ==
    \/ StartServer
    \/ PrismaConnect
    \/ RedisComesUp
    \/ RedisConnectResolves
    \/ RedisConnectRejects
    \/ \E p \in Procs : Arrive(p)
    \/ \E p \in Procs : RequestQuery(p)
    \/ \E p \in Procs : RequestCache(p)
    \/ \E p \in Procs : RequestRespond(p)
    \/ Shutdown
    \/ PrismaDisconnected
    \/ RedisDisconnected
    \/ ServerRedisError

SpecServer == InitServer /\ [][ServerNext]_vars

----------------------------------------------------------------------------
(* Properties of the process (checked under SpecServer) *)

ShutdownBegun ==
    \/ server.phase \in {"prisma.$disconnect", "redis.disconnect"}
    \/ server.phase = "exited" /\ server.exitCode = 0

\* C22: shutdown drains the requests in flight before it disconnects
\* persistence and then the cache: no request is in flight once shutdown has
\* gone on to prisma.$disconnect(), none issues a command on a client that
\* shutdown disconnected, and none is cut off by the exit.
C22_DrainThenDisconnect ==
    /\ ShutdownBegun => \A p \in Procs : server.inflight[p] = "none"
    /\ ~server.sawClosed
    /\ ~server.aborted
    /\ server.redis = "closed" /\ ShutdownBegun => server.prisma = "closed"

\* C23: the cache being unreachable at startup neither ends the process nor
\* keeps it from listening: startServer does not exit on redis.connect(),
\* and is not left at `await redis.connect()`, the HTTP server not
\* listening, for as long as the cache stays unreachable.
C23_CacheDownStillListens ==
    /\ server.phase = "exited" => server.failed # "redis"
    /\ (server.phase = "redis.connect" /\ ~server.redisUp /\ server.retry)
          => server.accepting

----------------------------------------------------------------------------
(* Roles created through POST /api/roles, users logging in with them *)

\* Slugs a client may send, character by character.
SlugInputs ==
    {<<"a", "p", "i">>, <<"A", "P", "I">>, <<"e", "d">>, <<"a">>, <<"a", " ">>}

\* String.prototype.toLowerCase on the characters in use
LowerCase(ch) == CASE ch = "A" -> "a" [] ch = "P" -> "p" [] ch = "I" -> "i" [] OTHER -> ch
ToLowerCase(text) == [n \in 1..Len(text) |-> LowerCase(text[n])]

\* /^[a-z0-9_-]+$/ on the characters in use
SlugCharacters == {"a", "p", "i", "e", "d", "1", "_", "-"}

\* roleSchemas.createRole, slug: Joi.string().min(2).max(50).lowercase()
\* .pattern(...).required(); validateRequest replaces req.body with the
\* converted value.  The slug stored, or <<>> when validation fails (400).
ValidatedSlug(text) ==
    LET value == ToLowerCase(text)
    IN IF Len(value) >= 2 /\ Len(value) <= 50
            /\ \A n \in 1..Len(value) : value[n] \in SlugCharacters
       THEN value ELSE <<>>

\* The slug as the string role.slug holds.
SlugString(value) ==
    CASE value = <<"a", "p", "i">> -> "api"
      [] value = <<"e", "d">> -> "ed"
      [] OTHER -> ""

\* UserService.login: the payload of the token issued
LoginPayload(u) ==
    [id |-> u, email |-> users[u].email, role |-> roles[users[u].roleId].slug,
     type |-> "user"]

InitLogin ==
    /\ roles = [i \in RoleIds |-> NoRole]
    /\ users = [u \in UserIds |-> NoUserRow]
    /\ admins = {}
    /\ req = NoRequest
    /\ res = NoResponse
    /\ cfgApiKey \in {"", StaticKey}
    /\ sessions = {}
    /\ now = 0
    /\ route = NoRoute
    /\ procs = [p \in Procs |-> NoProc]
    /\ store = [k \in Keys |-> Nil]
    /\ isConnected = FALSE
    /\ call = NoCall
    /\ last = NoRecord
    /\ hist = [k \in Keys |-> "none"]
    /\ WebIdle

loginOther == <<cacheVars, cfgApiKey, sessions, now, route, admins, procs, webVars>>

\* POST /api/roles by a SUPER_ADMIN: validateRequest(createRole), then
\* roleService.create.
LoginCreateRole(i, text, S) ==
    LET slug == SlugString(ValidatedSlug(text))
    IN /\ req.stage = "none"
       /\ roles[i] = NoRole
       /\ ValidatedSlug(text) # <<>>
       /\ ~\E j \in RoleIds : roles[j] # NoRole /\ roles[j].slug = slug
       /\ roles' = [roles EXCEPT ![i] =
                      [RoleRow(slug, FALSE, TRUE, PermissionsText(S)) EXCEPT
                         !.slug = slug]]
       /\ UNCHANGED <<users, req, res, loginOther>>

\* userService.create with the role given
LoginCreateUser(u, i) ==
    /\ req.stage = "none"
    /\ users[u] = NoUserRow
    /\ roles[i] # NoRole
    /\ users' = [users EXCEPT ![u] = UserRow(UserEmails[u], i, TRUE)]
    /\ UNCHANGED <<roles, req, res, loginOther>>

\* userService.login succeeds and the client sends the token as a Bearer
\* token; or a client sends the API key.
LoginRequest(u) ==
    /\ req.stage = "none"
    /\ users[u] # NoUserRow /\ users[u].isActive
    /\ req' = Request(AuthorizationHeader("Bearer ",
                          Jwt(LoginPayload(u), MaxTime, JwtSecret)), NoApiKey)
    /\ UNCHANGED <<roles, users, res, loginOther>>

ApiKeyRequest ==
    /\ req.stage = "none"
    /\ req' = Request(NoAuthorization, ApiKeyHeader(StaticKey))
    /\ UNCHANGED <<roles, users, res, loginOther>>

\* multiAuth, then authorizePermission(...required) on the request
LoginMultiAuth ==
    /\ req.stage = "received"
    /\ Ran("multiAuth", MultiAuth(req, FALSE, NoRow))

LoginAuthorizePermission(required, dbFails) ==
    /\ req.stage = "authenticated"
    /\ req.mw = "multiAuth"
    /\ Ran("authorizePermission", AuthorizePermission(required, req, dbFails))

LoginNext ==
    \/ \E i \in RoleIds, text \in SlugInputs, S \in SUBSET Permissions :
          LoginCreateRole(i, text, S)
    \/ \E u \in UserIds, i \in RoleIds : LoginCreateUser(u, i)
    \/ \E u \in UserIds : LoginRequest(u)
    \/ ApiKeyRequest
    \/ LoginMultiAuth
    \/ \E required \in SUBSET Permissions, dbFails \in BOOLEAN :
          LoginAuthorizePermission(required, dbFails)

SpecLogin == InitLogin /\ [][LoginNext]_vars

\* C27: authorizePermission skips the permission check (calls next without
\* looking the user up) only for a principal attached by API-key
\* authentication, never for one whose token userService.login issued.
C27_BypassOnlyForApiKeyPrincipals ==
    (req.mw = "authorizePermission" /\ res.nextCalls = 1 /\ res.lookup = "none")
        => (KeyPresented /\ ~BearerPresented)

----------------------------------------------------------------------------
(* utils/jwt.util: generateToken and verifyToken over time *)

\* Date.now() is followed in half seconds; jwt.sign and jwt.verify read the
\* clock in whole seconds, Math.floor(Date.now() / 1000).
MaxClock == 2 * MaxTime + 1
Seconds(clock) == clock \div 2

\* generateToken(payload) with config.jwt.expiresIn of t seconds: jwt.sign
\* adds iat, the clock in whole seconds, and exp = iat + t.
GenerateToken(c, t) == [Jwt(c, now + t, JwtSecret) EXCEPT !.iat = now]

InitJwt ==
    /\ jwt \in {[NoJwt EXCEPT !.clock = k] : k \in {0, 1}}
    /\ now = 0
    /\ cfgApiKey = ""
    /\ sessions = {}
    /\ req = NoRequest
    /\ res = NoResponse
    /\ route = NoRoute
    /\ roles = [i \in RoleIds |-> NoRole]
    /\ users = [u \in UserIds |-> NoUserRow]
    /\ admins = {}
    /\ procs = [p \in Procs |-> NoProc]
    /\ store = [k \in Keys |-> Nil]
    /\ isConnected = FALSE
    /\ call = NoCall
    /\ last = NoRecord
    /\ hist = [k \in Keys |-> "none"]
    /\ pages = [u \in PageUrls |-> Nil]
    /\ http = [p \in Procs |-> NoHttp]
    /\ answer = [u \in PageUrls |-> NoAnswer]
    /\ server = NoServer
    /\ sock = NoSock

jwtOther ==
    <<cacheVars, cfgApiKey, sessions, req, res, route, dbVars, procs, pages, http,
      answer, server, sock>>

\* Half a second passes.
JwtTick ==
    /\ jwt.clock < MaxClock
    /\ jwt' = [jwt EXCEPT !.clock = @ + 1, !.result = NoUser, !.verified = FALSE]
    /\ now' = Seconds(jwt.clock + 1)
    /\ UNCHANGED jwtOther

\* A login signs a token for the claims c with a ttl of t seconds.
SignToken(c, t) ==
    /\ jwt.token = NullToken
    /\ jwt' = [jwt EXCEPT !.token = GenerateToken(c, t), !.claims = c, !.ttl = t,
                          !.signedAt = jwt.clock]
    /\ UNCHANGED <<now, jwtOther>>

\* verifyToken is applied to the token.
VerifySigned ==
    /\ jwt.token # NullToken
    /\ ~jwt.verified
    /\ jwt' = [jwt EXCEPT !.result = VerifyToken(jwt.token), !.verified = TRUE]
    /\ UNCHANGED <<now, jwtOther>>

JwtNext ==
    \/ JwtTick
    \/ \E c \in Claims, t \in 1..MaxTime : SignToken(c, t)
    \/ VerifySigned

SpecJwt == InitJwt /\ [][JwtNext]_vars

\* The time since signing, in half seconds.
Elapsed == jwt.clock - jwt.signedAt

\* The fields of the claims as the result holds them.
ClaimsOf(result) ==
    [id |-> result.id, email |-> result.email, role |-> result.role,
     type |-> result.type]

\* C24: verifyToken applied to a token signed from the claims c with ttl t
\* returns c exactly while fewer than t seconds have elapsed since signing,
\* and null once t seconds have elapsed.
C24_VerifyReturnsClaimsUntilExpiry ==
    jwt.verified =>
        IF Elapsed < 2 * jwt.ttl THEN jwt.result = jwt.claims
        ELSE jwt.result = NoUser

\* C24 (amended): what verifyToken returns is null or a payload holding every
\* field of c unchanged together with iat and exp = iat + t; it is such a
\* payload while the clock in whole seconds is below exp, which is so until
\* t - 1 seconds have elapsed, and null from then on, which is so once t
\* seconds have elapsed.
C24_VerifyReturnsPayloadUntilExpiry ==
    jwt.verified =>
        /\ jwt.result # NoUser
             => /\ ClaimsOf(jwt.result) = jwt.claims
                /\ jwt.result.iat = Seconds(jwt.signedAt)
                /\ jwt.result.exp = jwt.result.iat + jwt.ttl
        /\ jwt.result # NoUser <=> now < Seconds(jwt.signedAt) + jwt.ttl
        /\ Elapsed <= 2 * (jwt.ttl - 1) => jwt.result # NoUser
        /\ Elapsed >= 2 * jwt.ttl => jwt.result = NoUser

\* C24 witness: a token verified some time after signing and within its
\* ttl, the result holding the claims it was signed from.
C24_Witness ==
    /\ jwt.verified
    /\ Elapsed >= 1 /\ Elapsed < 2 * jwt.ttl
    /\ jwt.result # NoUser
    /\ ClaimsOf(jwt.result) = jwt.claims

----------------------------------------------------------------------------
(* socket/index: initializeSocket, and socket/handlers/dashboard.handler *)

\* The events of SOCKET_EVENTS a client may send, and the ones that carry
\* the result of dashboardService.getStats.
ClientEvents == {"dashboard:stats:update", "dashboard:user:count", "dashboard:refresh"}
StatsEvents == {"dashboard:stats:update", "dashboard:user:count"}

\* io.use: socket.data.user is what verifyToken decodes from the handshake
\* token, when there is a token and it verifies; next() in every case.
SocketAuth(token) ==
    IF ~TokenFalsy(token) /\ VerifyToken(token) # NoUser THEN VerifyToken(token)
    ELSE NoUser

\* io.on('connection'): the handlers applied for socket.data.user
HandlersFor(user) ==
    IF user # NoUser
    THEN (IF user.type = "admin" THEN {"adminHandler"} ELSE {"userHandler"})
             \cup {"dashboardHandler"}
    ELSE {"userHandler"}

\* The rooms the handlers join the socket to (the rooms of dashboardHandler
\* and adminHandler).
RoomsFor(handlers) ==
    (IF "dashboardHandler" \in handlers THEN {"dashboard"} ELSE {})
        \cup (IF "adminHandler" \in handlers THEN {"admins"} ELSE {})

\* A client connects, with a token in its handshake or none.
InitSocket ==
    /\ sock \in {[NoSock EXCEPT !.pc = "handshake", !.token = t] :
                    t \in Tokens \cup {NullToken}}
    /\ now \in {0, 1}
    /\ cfgApiKey = ""
    /\ sessions = {}
    /\ req = NoRequest
    /\ res = NoResponse
    /\ route = NoRoute
    /\ roles = [i \in RoleIds |-> NoRole]
    /\ users = [u \in UserIds |-> NoUserRow]
    /\ admins = {}
    /\ procs = [p \in Procs |-> NoProc]
    /\ store = [k \in Keys |-> Nil]
    /\ isConnected = FALSE
    /\ call = NoCall
    /\ last = NoRecord
    /\ hist = [k \in Keys |-> "none"]
    /\ pages = [u \in PageUrls |-> Nil]
    /\ http = [p \in Procs |-> NoHttp]
    /\ answer = [u \in PageUrls |-> NoAnswer]
    /\ server = NoServer
    /\ jwt = NoJwt

sockOther ==
    <<cacheVars, authVars, route, dbVars, procs, pages, http, answer, server, jwt>>

\* The authentication middleware of io.use runs.
IoUse ==
    /\ sock.pc = "handshake"
    /\ sock' = [sock EXCEPT !.pc = "connection", !.user = SocketAuth(sock.token)]
    /\ UNCHANGED sockOther

\* The connection handler runs.
IoConnection ==
    /\ sock.pc = "connection"
    /\ sock' = [sock EXCEPT !.pc = "connected",
                            !.handlers = HandlersFor(sock.user),
                            !.rooms = RoomsFor(HandlersFor(sock.user))]
    /\ UNCHANGED sockOther

\* The client sends an event; dashboardHandler answers a statistics event
\* with the result of getStats, or with 'error' when getStats rejects.
SocketEvent(event, fails) ==
    /\ sock.pc = "connected"
    /\ event \notin sock.received
    /\ sock' = IF "dashboardHandler" \in sock.handlers /\ event \in StatsEvents
               THEN [sock EXCEPT !.received =
                                    @ \cup {IF fails THEN "error" ELSE event}]
               ELSE sock
    /\ UNCHANGED sockOther

SocketNext ==
    \/ IoUse
    \/ IoConnection
    \/ \E event \in ClientEvents, fails \in BOOLEAN : SocketEvent(event, fails)

SpecSocket == InitSocket /\ [][SocketNext]_vars

\* C30: the statistics of dashboardService.getStats are emitted only to a
\* socket whose principal is of type 'admin'.
C30_StatsOnlyToAdmins ==
    sock.received \cap StatsEvents # {}
        => (sock.user # NoUser /\ sock.user.type = "admin")

----------------------------------------------------------------------------
(* RoleService.setDefault for a role that does not exist *)

\* One request at a time calls a method that reads or writes the role table:
\* nothing runs between the steps of a call.
DefaultNext ==
    \/ \E c \in RoleCalls : Begin("t1", c)
    \/ Step

SpecDefault == InitStore /\ [][DefaultNext]_vars

\* A setDefault call in flight for an id no role has; with no other call
\* beside it, its update rejects and the call fails.
SetDefaultOfMissingRole(p) ==
    /\ procs[p].op = "role.setDefault"
    /\ Running(procs[p])
    /\ roles[procs[p].roleId] = NoRole

\* C29: a roleService.setDefault(id) that fails because no role has that id
\* changes no row of the role table at any of its steps; the role that was
\* the default before the call is still the default.
C29_Step ==
    \A p \in Procs :
        SetDefaultOfMissingRole(p) => (roles' = roles /\ DefaultRoles' = DefaultRoles)
C29_FailedSetDefaultChangesNothing == [][C29_Step]_vars

----------------------------------------------------------------------------
(* RoleService.getById beside RoleService.update *)

\* The store answers every command here: the cache is ready throughout and
\* no command fails.
Answers == "none"

\* The entry of role:<id> was written, after update's cacheService.delete of
\* the key, by a getById that had started before update returned.
Raced == "raced"

\* update(id, data) has returned.
UpdateReturned(i) ==
    \E p \in Procs :
        procs[p].op = "role.update" /\ procs[p].roleId = i /\ procs[p].status = 200

\* update(id, data) has issued its cacheService.delete.
UpdateInvalidated(i) ==
    \E p \in Procs :
        /\ procs[p].op = "role.update"
        /\ procs[p].roleId = i
        /\ Invalidations(procs[p]) # {}

\* update that invalidates the key of the list in place of `role:${id}`.
InvalidatedKeyOfList(c) == RolesListKey

\* The key update deletes: `role:${id}`
InvalidatedKey(c) == RoleKey(c.roleId)

\* The fetcher of getById: the row as findUnique returns it, mapped.
GetByIdFetcher(i) == RoleJs(i)

\* A getById(id) call; flag: update(id) had returned when it started.
GetByIdCall(i) ==
    [NoProc EXCEPT !.op = "role.getById", !.pc = "get", !.roleId = i,
                   !.flag = UpdateReturned(i)]

\* A role table with rows for the ids that have a key, an empty cache and no
\* call in flight.
InitReads ==
    /\ \E a \in BOOLEAN :
          roles = [i \in RoleIds |->
                     IF i \in 1..NumIds
                     THEN RoleRow(RoleNames[i], FALSE, a, NullPermissions)
                     ELSE NoRole]
    /\ users = [u \in UserIds |-> NoUserRow]
    /\ admins = {}
    /\ procs = [p \in Procs |-> NoProc]
    /\ store = [k \in Keys |-> Nil]
    /\ isConnected = TRUE
    /\ call = NoCall
    /\ last = NoRecord
    /\ hist = [k \in Keys |-> "none"]
    /\ cfgApiKey = ""
    /\ sessions = {}
    /\ now = 0
    /\ req = NoRequest
    /\ res = NoResponse
    /\ route = NoRoute
    /\ WebIdle

readsOther == <<isConnected, call, last, authVars, route, users, admins, webVars>>

\* The controller updateRole calls roleService.update(id, { isActive }).
UpdateBegin(i, flag) ==
    /\ procs["t1"] = NoProc
    /\ procs' = [procs EXCEPT !["t1"] = Call("role.update", i, "", "", flag)]
    /\ UNCHANGED <<store, hist, roles, readsOther>>

\* await prisma.role.update
UpdateMutates ==
    LET c == procs["t1"]
    IN /\ IsAt(c, "write", "update")
       /\ \E r \in RoleUpdate(c) :
             /\ procs' = [procs EXCEPT !["t1"] = r.call]
             /\ roles' = r.roles
       /\ UNCHANGED <<store, hist, readsOther>>

\* await cacheService.delete(`role:${id}`)
UpdateDeletesKey ==
    LET c == procs["t1"]
    IN /\ IsAt(c, "delete", "role:")
       /\ procs' = [procs EXCEPT !["t1"] =
                      Advance(Issued(c, "delete", "role:", KeyId(c)))]
       /\ store' = CacheDelete(InvalidatedKey(c), Answers).store
       /\ hist' = [k \in Keys |-> IF store'[k] = Nil THEN "none" ELSE hist[k]]
       /\ UNCHANGED <<roles, readsOther>>

\* await cacheService.deletePattern('roles:*'); update returns.
UpdateDeletesPattern ==
    LET c == procs["t1"]
    IN /\ IsAt(c, "deletePattern", "roles:*")
       /\ procs' = [procs EXCEPT !["t1"] =
                      Advance(Issued(c, "deletePattern", "roles:*", ""))]
       /\ store' = CacheDeletePattern(RolesPrefix \o <<"*">>, Answers, {}).store
       /\ hist' = [k \in Keys |-> IF store'[k] = Nil THEN "none" ELSE hist[k]]
       /\ UNCHANGED <<roles, readsOther>>

\* The controller getRoleById calls roleService.getById(id).
GetByIdBegin(p, i) ==
    /\ p # "t1"
    /\ procs[p] = NoProc
    /\ procs' = [procs EXCEPT ![p] = GetByIdCall(i)]
    /\ UNCHANGED <<store, hist, roles, readsOther>>

\* getOrSet: `const cached = await this.get(key); if (cached) return cached;`
GetByIdCacheGet(p) ==
    LET c == procs[p]
        cached == CacheGet(RoleKey(c.roleId), Answers).value
    IN /\ c.op = "role.getById"
       /\ c.pc = "get"
       /\ procs' = [procs EXCEPT ![p] =
                      IF GetOrSetHit(cached)
                      THEN [Issued(c, "hit", hist[RoleKey(c.roleId)], Digits[c.roleId])
                              EXCEPT !.pc = "returned", !.status = 200,
                                     !.readActive = cached.data.isActive]
                      ELSE [c EXCEPT !.pc = "fetcher"]]
       /\ UNCHANGED <<store, hist, roles, readsOther>>

\* getOrSet: `const data = await fetcher();`
GetByIdFindUnique(p) ==
    LET c == procs[p]
    IN /\ c.op = "role.getById"
       /\ c.pc = "fetcher"
       /\ procs' = [procs EXCEPT ![p] =
                      IF roles[c.roleId] = NoRole THEN Throw(c, 404)
                      ELSE [c EXCEPT !.pc = "set",
                                     !.readActive =
                                        GetByIdFetcher(c.roleId).data.isActive]]
       /\ UNCHANGED <<store, hist, roles, readsOther>>

\* getOrSet: `await this.set(key, data, ttlSeconds); return data;`
GetByIdCacheSet(p) ==
    LET c == procs[p]
        k == RoleKey(c.roleId)
        data == [GetByIdFetcher(c.roleId) EXCEPT !.data.isActive = c.readActive]
    IN /\ c.op = "role.getById"
       /\ c.pc = "set"
       /\ procs' = [procs EXCEPT ![p] = [c EXCEPT !.pc = "returned", !.status = 200]]
       /\ store' = CacheSet(k, data, Answers).store
       /\ hist' = [hist EXCEPT ![k] =
                     IF ~c.flag /\ UpdateInvalidated(c.roleId) THEN Raced
                     ELSE "filled"]
       /\ UNCHANGED <<roles, readsOther>>

\* The controller answers the request of a getById that has ended.
GetByIdEnds(p) ==
    /\ procs[p].op = "role.getById"
    /\ procs[p].status # 0
    /\ procs' = [procs EXCEPT ![p] = NoProc]
    /\ UNCHANGED <<store, hist, roles, readsOther>>

\* The server drops an entry whose TTL has run out.
ReadsExpire(k) ==
    /\ store[k] # Nil
    /\ store' = [store EXCEPT ![k] = Nil]
    /\ hist' = [hist EXCEPT ![k] = "none"]
    /\ UNCHANGED <<procs, roles, readsOther>>

\* One update, beside getById calls one after the other.
ReadsNext ==
    \/ \E i \in 1..NumIds, flag \in BOOLEAN : UpdateBegin(i, flag)
    \/ UpdateMutates
    \/ UpdateDeletesKey
    \/ UpdateDeletesPattern
    \/ \E p \in Procs, i \in 1..NumIds : GetByIdBegin(p, i)
    \/ \E p \in Procs : GetByIdCacheGet(p)
    \/ \E p \in Procs : GetByIdFindUnique(p)
    \/ \E p \in Procs : GetByIdCacheSet(p)
    \/ \E p \in Procs : GetByIdEnds(p)
    \/ \E k \in Keys : ReadsExpire(k)

SpecReads == InitReads /\ [][ReadsNext]_vars

\* A getById(i) that started after update(i, data) had returned has returned.
ReadAfterUpdate(p) ==
    /\ procs[p].op = "role.getById"
    /\ procs[p].flag
    /\ procs[p].status = 200
    /\ UpdateReturned(procs[p].roleId)

\* The role getById returned is the role with the data of the update.
ReturnsUpdated(p) ==
    \A q \in Procs :
        (procs[q].op = "role.update" /\ procs[q].roleId = procs[p].roleId) =>
            procs[p].readActive = procs[q].flag

\* getById was answered from an entry a getById in flight during the update
\* wrote after the update's invalidation.
HitRaced(p) ==
    \E n \in 1..Len(procs[p].events) :
        procs[p].events[n].kind = "hit" /\ procs[p].events[n].what = Raced

\* C28: once roleService.update(id, data) has returned, every getById(id)
\* that starts afterwards returns the updated role.
C28_GetByIdAfterUpdateIsFresh ==
    \A p \in Procs : ReadAfterUpdate(p) => ReturnsUpdated(p)

\* C28, amended: once roleService.update(id, data) has returned, a getById(id)
\* that starts afterwards returns the updated role, unless it is answered from
\* an entry that a getById(id) in flight while the update ran wrote after the
\* update's invalidation.
C28_GetByIdAfterUpdateFreshOrRaced ==
    \A p \in Procs : ReadAfterUpdate(p) => (ReturnsUpdated(p) \/ HitRaced(p))

\* C28: a getById that started after the update had returned has returned
\* the updated role, the row the table holds, and was not answered from an
\* entry written by a getById in flight during the update.
C28_Witness ==
    \E p \in Procs :
        /\ ReadAfterUpdate(p)
        /\ ReturnsUpdated(p)
        /\ ~HitRaced(p)
        /\ roles[procs[p].roleId].isActive = procs[p].readActive

====
